---- MODULE Spec2Model ----
(***************************************************************************)
(* TM1629 LED-display / keypad driver (MahdaSystem/TM1629).                *)
(*                                                                         *)
(* The handler (DisplayType, DisplayRegister[16]) and the three bus lines  *)
(* STB / CLK / DIO are the state.  Every public function of the driver is  *)
(* one action; what it does on the lines is computed by running the        *)
(* platform primitives (WriteSTB, DirDIO, WriteDIO, WriteCLK, ReadDIO,     *)
(* DelayUs) in the order the code calls them.  Each primitive appends one  *)
(* pin event to the trace of the running operation and moves the chip-side *)
(* receiver, which latches DIO on every rising CLK edge while STB is low.  *)
(***************************************************************************)
EXTENDS Integers, Sequences, FiniteSets, TLC

VARIABLES
  inited,           \* TM1629_Init has run on the handler
  DisplayType,      \* Handler->DisplayType
  DisplayRegister,  \* Handler->DisplayRegister[0..15], the shadow image
  line,             \* levels of STB, CLK, DIO and the DIO direction
  trace,            \* pin events of the last public operation
  brackets,         \* what the chip latched in the last operation, per STB bracket
  lastOp,           \* the last public operation and its arguments (of TM1629_Init
                    \* and TM1629_DeInit: what the hook returned, if called)
  prevRegister,     \* DisplayRegister as it was when the last operation began
  ret,              \* TM1629_Result_t returned by the last operation
  Keys,             \* *Keys written by the last TM1629_ScanKeys, as 32 bits
  nops,             \* public operations run since TM1629_Init
  Input,            \* the byte the calling program passes on (SpecByte)
  Platform,         \* the build and Handler->Platform as the caller filled it
  run               \* the calls in progress, statement by statement (SpecStep,
                    \* SpecRace); NoRun where a call is one step

vars == <<inited, DisplayType, DisplayRegister, line, trace, brackets, lastOp,
          prevRegister, ret, Keys, nops, Input, Platform, run>>

\* no call is in progress
NoRun == <<>>

(***************************************************************************)
(* Bounds of the model.                                                    *)
(***************************************************************************)
MaxOps == 1       \* public operations per run after TM1629_Init
MaxCount == 4     \* longest Count passed to a multi-digit write
MaxBrackets == 4  \* STB brackets after which a sequence of calls is not extended
MaxWrites == 3    \* display writes in a sequence on a common-anode display

(***************************************************************************)
(* Program constants.                                                      *)
(***************************************************************************)
TM1629_OK == 0
TM1629_FAIL == -1
TM1629_DISPLAY_STATE_OFF == 0
TM1629_DECIMAL_POINT == 128
COMMAND_DATA_READING_WRITING_SETTING == 64
COMMAND_DISPLAY_CONTROL == 128
COMMAND_ADDRESS_SETTING == 192
COMMAND_DRWS_WRITE_DATA_TO_DISPLAY_REGISTER == 0
COMMAND_DRWS_READ_KEY_SCANNING_DATA == 2
COMMAND_DRWS_AUTO_INCREASE_OF_ADDRESS == 0
COMMAND_DRWS_NORMAL_MODE == 0
COMMAND_DC_DISPLAY_IS_OFF == 0
COMMAND_DC_DISPLAY_IS_ON == 8
COM_CATHODE == "TM1629_DISPLAY_TYPE_COM_CATHODE"
COM_ANODE == "TM1629_DISPLAY_TYPE_COM_ANODE"

HexTo7Seg ==
  <<63, 6, 91, 79, 102, 109, 125, 7, 127, 111,      \* 0 .. 9
    119, 124, 57, 94, 121, 113,                     \* A b C d E F
    111, 61, 116, 118, 5, 6, 13, 48, 56, 84, 55,    \* g G h H i I j l L n N
    92, 63, 115, 103, 80, 109, 120, 28, 62, 102,    \* o O P q r S t u U y
    8, 64, 1>>                                      \* _ - overscore

(***************************************************************************)
(* C integer arithmetic on bytes.                                          *)
(***************************************************************************)
Pow2(n) == 2 ^ n

Bit(x, i) == (x \div Pow2(i)) % 2

\* a & b and a | b on non-negative ints, bit by bit from the low end
RECURSIVE And(_, _)
And(a, b) ==
  IF a = 0 \/ b = 0 THEN 0
  ELSE (a % 2) * (b % 2) + 2 * And(a \div 2, b \div 2)

RECURSIVE Or(_, _)
Or(a, b) ==
  IF a = 0 THEN b
  ELSE IF b = 0 THEN a
  ELSE (IF a % 2 = 1 \/ b % 2 = 1 THEN 1 ELSE 0) + 2 * Or(a \div 2, b \div 2)

\* ~a on an int (two's complement)
NotInt(a) == (-a) - 1

\* conversion of an int to uint8_t
U8(x) == x % 256

\* a uint32_t as its bits, bit n at index n (values beyond 2^31 - 1 are not
\* numbers TLC computes with)
Zero32 == [n \in 0..31 |-> 0]

(***************************************************************************)
(* The platform layer.  Platform is                                        *)
(*   SupportSPI      TM1629_CONFIG_SUPPORT_SPI of the build (GPIO support  *)
(*                   is always compiled in: TM1629_Init does not compile   *)
(*                   without the GPIO members)                             *)
(*   Communication   Platform.Communication: "GPIO", "SPI", or "Other" for *)
(*                   a value that is neither enumerator; the field exists  *)
(*                   only in a build with both back ends                   *)
(*   Init, DeInit    the optional hooks: <<>> when the pointer is null,    *)
(*                   <<r>> when the hook is bound and returns r            *)
(*   Bound           the primitives whose pointer is not null              *)
(*   Fault           the primitive that signals an error (returns -1 and   *)
(*                   leaves its pin alone) on every call, or "none"        *)
(***************************************************************************)
Primitives == {"DirDIO", "WriteSTB", "WriteDIO", "WriteCLK", "ReadDIO", "DelayUs"}

\* what TM1629_Platform_Init_GPIO_3Wire leaves in the handler, in the build
\* TM1629_config.h selects
GoodPlatform ==
  [SupportSPI |-> FALSE, Communication |-> "GPIO", Init |-> <<0>>,
   DeInit |-> <<0>>, Bound |-> Primitives, Fault |-> "none"]

TM1629_IS_COMMUNICATION_GPIO(P) ==
  IF P.SupportSPI THEN P.Communication = "GPIO" ELSE TRUE

TM1629_IS_COMMUNICATION_SPI(P) ==
  IF P.SupportSPI THEN P.Communication = "SPI" ELSE FALSE

TM1629_CHECK_RES_PLATFORM(FUNC) == FUNC >= 0

(***************************************************************************)
(* Platform primitives.  L is the bus while an operation runs:             *)
(*   stb, clk, dio   last level written to each line                       *)
(*   dir             DIO direction, 1 = output (host drives), 0 = input    *)
(*   ev              pin events so far                                     *)
(*   cur             bits moved in the open bracket: <<"w", b>> latched by *)
(*                   the chip, <<"r", b>> sampled by the host              *)
(*   br              closed brackets                                       *)
(*   rclk            rising CLK edges of the open bracket with DIO as input*)
(*   keys            the chip's four key-scan registers                    *)
(*   pf              the platform the operation runs on                    *)
(*   ub              the byte a read without a defined value yields        *)
(* A call that signals an error is logged with a third component -1.       *)
(***************************************************************************)
BusStart(ln, keys) ==
  [stb |-> ln.stb, clk |-> ln.clk, dio |-> ln.dio, dir |-> ln.dir,
   ev |-> trace, cur |-> <<>>, br |-> brackets, rclk |-> 0, keys |-> keys,
   pf |-> Platform, ub |-> 0]

\* a primitive called with argument arg signals an error: its pin stays
Refused(L, tag, arg) == [L EXCEPT !.ev = Append(@, <<tag, arg, -1>>)]

WriteSTB(L, State) ==
  IF L.pf.Fault = "WriteSTB" THEN Refused(L, "STB", State)
  ELSE
  [L EXCEPT !.stb = State,
            !.ev = Append(@, <<"STB", State>>),
            !.cur = IF L.stb = 1 /\ State = 0 THEN <<>> ELSE @,
            !.rclk = IF L.stb = 1 /\ State = 0 THEN 0 ELSE @,
            !.br = IF L.stb = 0 /\ State = 1 THEN Append(@, L.cur) ELSE @]

DirDIO(L, Dir) ==
  IF L.pf.Fault = "DirDIO" THEN Refused(L, "DIR", Dir)
  ELSE [L EXCEPT !.dir = Dir, !.ev = Append(@, <<"DIR", Dir>>)]

WriteDIO(L, State) ==
  IF L.pf.Fault = "WriteDIO" THEN Refused(L, "DIO", State)
  ELSE [L EXCEPT !.dio = State, !.ev = Append(@, <<"DIO", State>>)]

WriteCLK(L, State) ==
  IF L.pf.Fault = "WriteCLK" THEN Refused(L, "CLK", State)
  ELSE
  LET rising == L.clk = 0 /\ State = 1 /\ L.stb = 0
  IN  [L EXCEPT !.clk = State,
                !.ev = Append(@, <<"CLK", State>>),
                !.cur = IF rising /\ L.dir = 1 THEN Append(@, <<"w", L.dio>>) ELSE @,
                !.rclk = IF rising /\ L.dir = 0 THEN @ + 1 ELSE @]

DelayUs(L, Delay) ==
  IF L.pf.Fault = "DelayUs" THEN Refused(L, "DLY", Delay)
  ELSE [L EXCEPT !.ev = Append(@, <<"DLY", Delay>>)]

\* the level the host samples: the chip shifts its key registers out LSB
\* first, one bit per clock pulse; an undriven line is pulled up; -1 when
\* the read signals an error
ReadDIOLevel(L) ==
  IF L.pf.Fault = "ReadDIO" THEN -1
  ELSE IF L.stb = 0 /\ L.dir = 0 /\ L.rclk \in 1..32
  THEN Bit(L.keys[((L.rclk - 1) \div 8) + 1], (L.rclk - 1) % 8)
  ELSE 1

ReadDIO(L) ==
  IF L.pf.Fault = "ReadDIO" THEN Refused(L, "RD", 0)
  ELSE
  [L EXCEPT !.ev = Append(@, <<"RD", ReadDIOLevel(L)>>),
            !.cur = Append(@, <<"r", ReadDIOLevel(L)>>)]

(***************************************************************************)
(* Byte transport (GPIO back end).                                         *)
(*                                                                         *)
(* TLC evaluates an operator's arguments only when they are used, so a     *)
(* loop that threads the bus through its iterations would be evaluated as  *)
(* one nested expression as deep as the whole transfer.  The bit and byte  *)
(* loops look at the bus in their loop test (Settled), which makes TLC     *)
(* compute it bit by bit; Settled is true of every bus.                    *)
(***************************************************************************)
Settled(L) == L.stb \in {0, 1}

TM1629_StartComunication(L) == WriteSTB(L, 0)

\* slip: the clock line is parked high after the bracket is closed
StopComunication_ParkClock(L) == WriteCLK(WriteSTB(L, 1), 1)

TM1629_StopComunication(L) == WriteSTB(L, 1)

\* slip: the data line is set after the clock has gone high
WriteBitGPIO_DataAfterClock(L, Buff) ==
  DelayUs(WriteDIO(WriteCLK(DelayUs(WriteCLK(L, 0), 1), 1), And(Buff, 1)), 1)

\* one pass of the inner loop of TM1629_WriteBytesGPIO
WriteBitGPIO(L, Buff) ==
  DelayUs(WriteCLK(WriteDIO(DelayUs(WriteCLK(L, 0), 1), And(Buff, 1)), 1), 1)

RECURSIVE WriteByteGPIO(_, _, _)
WriteByteGPIO(L, Buff, i) ==
  IF Settled(L) /\ i < 8
  THEN WriteByteGPIO(WriteBitGPIO(L, Buff), Buff \div 2, i + 1)
  ELSE L

RECURSIVE WriteBytesLoop(_, _, _, _)
WriteBytesLoop(L, Data, NumOfBytes, j) ==
  IF Settled(L) /\ j < NumOfBytes
  THEN WriteBytesLoop(WriteByteGPIO(L, Data[j + 1], 0), Data, NumOfBytes, j + 1)
  ELSE L

\* slip: the direction of the data line is not set before the bytes
WriteBytesGPIO_NoDirection(L, Data, NumOfBytes) ==
  WriteBytesLoop(L, Data, NumOfBytes, 0)

TM1629_WriteBytesGPIO(L, Data, NumOfBytes) ==
  WriteBytesLoop(DirDIO(L, 1), Data, NumOfBytes, 0)

\* the SPI back end is a stub: it returns -1 and moves nothing
TM1629_WriteBytesSPI(L, Data, NumOfBytes) == L

\* the int8_t the back end returns is dropped by every caller
TM1629_WriteBytes(L, Data, NumOfBytes) ==
  IF TM1629_IS_COMMUNICATION_GPIO(L.pf)
  THEN TM1629_WriteBytesGPIO(L, Data, NumOfBytes)
  ELSE TM1629_WriteBytesSPI(L, Data, NumOfBytes)

\* slip: the first bit sampled goes to the high end of the byte
ShiftLevel_HighFirst(L, v, i) ==
  IF v >= 0 THEN v * Pow2(7 - i) ELSE And(L.ub, 256 - Pow2(i))

\* TM1629_READ_DIO(Handler) << i as the byte that reaches Buff: the shift of
\* the error value -1 has no defined result, the build yields the bits of
\* L.ub from bit i up
ShiftLevel(L, v, i) ==
  IF v >= 0 THEN v * Pow2(i) ELSE And(L.ub, 256 - Pow2(i))

\* slip: the clock is taken low again once the bit has been sampled
ReadBitGPIO_ClockLeftLow(S, i) ==
  LET L1 == WriteCLK(DelayUs(WriteCLK(S.L, 0), 1), 1)
  IN  [L |-> WriteCLK(DelayUs(ReadDIO(L1), 1), 0),
       Buff |-> U8(Or(S.Buff, ShiftLevel(L1, ReadDIOLevel(L1), i)))]

\* one pass of the inner loop of TM1629_ReadBytesGPIO; S = [L, Buff]
ReadBitGPIO(S, i) ==
  LET L1 == WriteCLK(DelayUs(WriteCLK(S.L, 0), 1), 1)
  IN  [L |-> DelayUs(ReadDIO(L1), 1),
       Buff |-> U8(Or(S.Buff, ShiftLevel(L1, ReadDIOLevel(L1), i)))]

RECURSIVE ReadByteGPIO(_, _)
ReadByteGPIO(S, i) ==
  IF Settled(S.L) /\ i < 8 THEN ReadByteGPIO(ReadBitGPIO(S, i), i + 1) ELSE S

\* S = [L, Data]
RECURSIVE ReadBytesLoop(_, _, _)
ReadBytesLoop(S, NumOfBytes, j) ==
  IF Settled(S.L) /\ j < NumOfBytes
  THEN LET B == ReadByteGPIO([L |-> S.L, Buff |-> 0], 0)
       IN  ReadBytesLoop([L |-> DelayUs(B.L, 2), Data |-> Append(S.Data, B.Buff)],
                         NumOfBytes, j + 1)
  ELSE S

TM1629_ReadBytesGPIO(L, NumOfBytes) ==
  ReadBytesLoop([L |-> DelayUs(DirDIO(L, 0), 5), Data |-> <<>>], NumOfBytes, 0)

\* the SPI stub returns -1 and stores nothing: Data keeps what the caller's
\* array held, which was never written
TM1629_ReadBytesSPI(L, NumOfBytes) ==
  [L |-> L, Data |-> [k \in 1..NumOfBytes |-> L.ub]]

TM1629_ReadBytes(L, NumOfBytes) ==
  IF TM1629_IS_COMMUNICATION_GPIO(L.pf)
  THEN TM1629_ReadBytesGPIO(L, NumOfBytes)
  ELSE TM1629_ReadBytesSPI(L, NumOfBytes)

(***************************************************************************)
(* Command framer.                                                         *)
(***************************************************************************)
\* slip: the data command and the address command share one bracket
SetMultipleDisplayRegister_OneBracket(L, DigitData, StartAddr, Count) ==
  LET Data1 == Or(COMMAND_DATA_READING_WRITING_SETTING,
                  COMMAND_DRWS_WRITE_DATA_TO_DISPLAY_REGISTER)
      Data2 == U8(Or(COMMAND_ADDRESS_SETTING, StartAddr))
  IN  TM1629_StopComunication(
        TM1629_WriteBytes(
          TM1629_WriteBytes(
            TM1629_WriteBytes(TM1629_StartComunication(L), <<Data1>>, 1),
            <<Data2>>, 1),
          DigitData, Count))

\* slip: the data command asks for fixed-address mode
SetMultipleDisplayRegister_FixedAddress(L, DigitData, StartAddr, Count) ==
  LET Data1 == Or(Or(COMMAND_DATA_READING_WRITING_SETTING,
                     COMMAND_DRWS_WRITE_DATA_TO_DISPLAY_REGISTER), 4)
      L1 == TM1629_StopComunication(
              TM1629_WriteBytes(TM1629_StartComunication(L), <<Data1>>, 1))
      Data2 == U8(Or(COMMAND_ADDRESS_SETTING, StartAddr))
  IN  TM1629_StopComunication(
        TM1629_WriteBytes(
          TM1629_WriteBytes(TM1629_StartComunication(L1), <<Data2>>, 1),
          DigitData, Count))

TM1629_SetMultipleDisplayRegister(L, DigitData, StartAddr, Count) ==
  LET Data1 == Or(Or(COMMAND_DATA_READING_WRITING_SETTING,
                     COMMAND_DRWS_WRITE_DATA_TO_DISPLAY_REGISTER),
                  Or(COMMAND_DRWS_AUTO_INCREASE_OF_ADDRESS,
                     COMMAND_DRWS_NORMAL_MODE))
      L1 == TM1629_StopComunication(
              TM1629_WriteBytes(TM1629_StartComunication(L), <<Data1>>, 1))
      Data2 == U8(Or(COMMAND_ADDRESS_SETTING, StartAddr))
  IN  TM1629_StopComunication(
        TM1629_WriteBytes(
          TM1629_WriteBytes(TM1629_StartComunication(L1), <<Data2>>, 1),
          DigitData, Count))

\* slip: the bracket is closed after the command and reopened for the read
ScanKeyRegs_TwoBrackets(L) ==
  LET Data == Or(COMMAND_DATA_READING_WRITING_SETTING,
                 COMMAND_DRWS_READ_KEY_SCANNING_DATA)
      L1 == TM1629_StopComunication(
              TM1629_WriteBytes(TM1629_StartComunication(L), <<Data>>, 1))
      R == TM1629_ReadBytes(TM1629_StartComunication(L1), 4)
  IN  [L |-> TM1629_StopComunication(R.L), KeyRegs |-> R.Data]

\* returns [L, KeyRegs]
TM1629_ScanKeyRegs(L) ==
  LET Data == Or(Or(COMMAND_DATA_READING_WRITING_SETTING,
                    COMMAND_DRWS_READ_KEY_SCANNING_DATA),
                 Or(COMMAND_DRWS_AUTO_INCREASE_OF_ADDRESS,
                    COMMAND_DRWS_NORMAL_MODE))
      R == TM1629_ReadBytes(
             TM1629_WriteBytes(TM1629_StartComunication(L), <<Data>>, 1), 4)
  IN  [L |-> TM1629_StopComunication(R.L), KeyRegs |-> R.Data]

(***************************************************************************)
(* Glyph encoder.  An array is a sequence; element i of the C array is     *)
(* element i + 1 of the sequence.                                          *)
(***************************************************************************)
\* the switch of TM1629_HexTo7Seg: index into HexTo7Seg, or -1 for default
HexSwitch(Digit) ==
  CASE Digit \in {65, 97} -> 10      \* 'A' 'a'
    [] Digit \in {66, 98} -> 11      \* 'B' 'b'
    [] Digit \in {67, 99} -> 12      \* 'C' 'c'
    [] Digit \in {68, 100} -> 13     \* 'D' 'd'
    [] Digit \in {69, 101} -> 14     \* 'E' 'e'
    [] Digit \in {70, 102} -> 15     \* 'F' 'f'
    [] OTHER -> -1

\* slip: the decimal point is not carried into the segment byte
HexTo7SegByte_NoPoint(Hex) ==
  LET Digit == And(Hex, U8(NotInt(TM1629_DECIMAL_POINT)))
  IN  IF Digit <= 15
      THEN HexTo7Seg[Digit + 1]
      ELSE IF HexSwitch(Digit) >= 0
           THEN HexTo7Seg[HexSwitch(Digit) + 1]
           ELSE 0

\* slip: the ASCII digits '0'..'9' are taken as the values 0..9
HexTo7SegByte_AsciiDigits(Hex) ==
  LET DecimalPoint == And(Hex, TM1629_DECIMAL_POINT)
      Digit == And(Hex, U8(NotInt(TM1629_DECIMAL_POINT)))
  IN  IF Digit <= 15
      THEN Or(HexTo7Seg[Digit + 1], DecimalPoint)
      ELSE IF Digit \in 48..57
           THEN Or(HexTo7Seg[Digit - 47], DecimalPoint)
           ELSE IF HexSwitch(Digit) >= 0
                THEN Or(HexTo7Seg[HexSwitch(Digit) + 1], DecimalPoint)
                ELSE 0

\* the body of the loop of TM1629_HexTo7Seg for one input byte
HexTo7SegByte(Hex) ==
  LET DecimalPoint == And(Hex, TM1629_DECIMAL_POINT)
      Digit == And(Hex, U8(NotInt(TM1629_DECIMAL_POINT)))
  IN  IF Digit <= 15
      THEN Or(HexTo7Seg[Digit + 1], DecimalPoint)
      ELSE IF HexSwitch(Digit) >= 0
           THEN Or(HexTo7Seg[HexSwitch(Digit) + 1], DecimalPoint)
           ELSE 0

TM1629_HexTo7Seg(Hex, Count) == [i \in 1..Count |-> HexTo7SegByte(Hex[i])]

\* the switch of TM1629_StringTo7Seg: index into HexTo7Seg, or -1 for default
StringSwitch(Ch) ==
  CASE Ch \in {65, 97} -> 10         \* 'A' 'a'
    [] Ch \in {66, 98} -> 11         \* 'B' 'b'
    [] Ch \in {67, 99} -> 12         \* 'C' 'c'
    [] Ch \in {68, 100} -> 13        \* 'D' 'd'
    [] Ch \in {69, 101} -> 14        \* 'E' 'e'
    [] Ch \in {70, 102} -> 15        \* 'F' 'f'
    [] Ch = 103 -> 16                \* 'g'
    [] Ch = 71 -> 17                 \* 'G'
    [] Ch = 104 -> 18                \* 'h'
    [] Ch = 72 -> 19                 \* 'H'
    [] Ch = 105 -> 20                \* 'i'
    [] Ch = 73 -> 21                 \* 'I'
    [] Ch \in {106, 74} -> 22        \* 'j' 'J'
    [] Ch = 108 -> 23                \* 'l'
    [] Ch = 76 -> 24                 \* 'L'
    [] Ch = 110 -> 25                \* 'n'
    [] Ch = 78 -> 26                 \* 'N'
    [] Ch = 111 -> 27                \* 'o'
    [] Ch = 79 -> 28                 \* 'O'
    [] Ch \in {112, 80} -> 29        \* 'p' 'P'
    [] Ch \in {113, 81} -> 30        \* 'q' 'Q'
    [] Ch \in {114, 82} -> 31        \* 'r' 'R'
    [] Ch \in {115, 83} -> 32        \* 's' 'S'
    [] Ch \in {116, 84} -> 33        \* 't' 'T'
    [] Ch = 117 -> 34                \* 'u'
    [] Ch = 85 -> 35                 \* 'U'
    [] Ch \in {121, 89} -> 36        \* 'y' 'Y'
    [] Ch = 95 -> 37                 \* '_'
    [] Ch = 45 -> 38                 \* '-'
    [] Ch = 126 -> 39                \* '~'
    [] OTHER -> -1

\* slip: the digit range test reads Ch < '9', so '9' falls to the switch
StringTo7SegByte_NoNine(C) ==
  LET DecimalPoint == IF C = 46 THEN TM1629_DECIMAL_POINT
                      ELSE And(C, TM1629_DECIMAL_POINT)
      Ch == And(C, U8(NotInt(TM1629_DECIMAL_POINT)))
  IN  IF Ch >= 48 /\ Ch < 57
      THEN Or(HexTo7Seg[(Ch - 48) + 1], DecimalPoint)
      ELSE IF StringSwitch(Ch) >= 0
           THEN Or(HexTo7Seg[StringSwitch(Ch) + 1], DecimalPoint)
           ELSE 0

\* the body of the loop of TM1629_StringTo7Seg for one character (as a byte)
StringTo7SegByte(C) ==
  LET DecimalPoint == IF C = 46 THEN TM1629_DECIMAL_POINT      \* '.'
                      ELSE And(C, TM1629_DECIMAL_POINT)
      Ch == And(C, U8(NotInt(TM1629_DECIMAL_POINT)))
  IN  IF Ch >= 48 /\ Ch <= 57                                  \* '0' .. '9'
      THEN Or(HexTo7Seg[(Ch - 48) + 1], DecimalPoint)
      ELSE IF StringSwitch(Ch) >= 0
           THEN Or(HexTo7Seg[StringSwitch(Ch) + 1], DecimalPoint)
           ELSE 0

\* slip: the loop is left at the first character that has no pattern, the
\* rest of Data stays blank
StringTo7Seg_Abort(Str, Count) ==
  [i \in 1..Count |->
     IF \E k \in 1..(i - 1) : StringTo7SegByte(Str[k]) = 0
     THEN 0
     ELSE StringTo7SegByte(Str[i])]

TM1629_StringTo7Seg(Str, Count) == [i \in 1..Count |-> StringTo7SegByte(Str[i])]

(***************************************************************************)
(* Display-register mapper.  R is Handler->DisplayRegister as a sequence   *)
(* of 16 bytes.  A public function returns [R, L, ret]: the shadow image   *)
(* and the bus it leaves, and its result.                                  *)
(***************************************************************************)
\* slip: the shift count is taken modulo 8, as a rotation of the byte
Shl1_InByte(Shift) == Pow2(Shift % 8)

\* (1 << Shift) as an int; the shift is defined for Shift <= 30
Shl1(Shift) == Pow2(Shift)

\* slip: reg = mask, the bits of the other digits in the byte lost
OrAssign_Overwrite(reg, mask) == U8(mask)

\* reg |= mask and reg &= ~mask on a uint8_t with an int mask: the operands
\* are ints, the store keeps the low byte
OrAssign(reg, mask) == U8(Or(reg, mask))

\* slip: reg &= mask, the complement forgotten
AndNotAssign_NoComplement(reg, mask) == And(reg, U8(mask))

\* slip: the whole byte is cleared where the segment is off
AndNotAssign_ClearByte(reg, mask) == 0

AndNotAssign(reg, mask) == And(reg, U8(NotInt(mask)))

\* true of every shadow image; the digit loop tests it so that the image is
\* computed digit by digit (see Settled)
Stored(R) == Len(R) = 16

\* the inner loop of the common-anode branch: i += 2, DigitDataBuff >>= 1
RECURSIVE ScatterDigit(_, _, _, _)
ScatterDigit(R, i, DigitDataBuff, Shift) ==
  IF i < 16
  THEN ScatterDigit(
         [R EXCEPT ![i + 1] =
            IF And(DigitDataBuff, 1) = 1
            THEN OrAssign(@, Shl1(Shift))
            ELSE AndNotAssign(@, Shl1(Shift))],
         i + 2, DigitDataBuff \div 2, Shift)
  ELSE R

\* slip: the two banks taken the wrong way round
ScatterStart_BanksSwapped(pos) ==
  IF pos >= 0 /\ pos <= 7
  THEN [Shift |-> U8(pos), i |-> 1]
  ELSE [Shift |-> U8(pos - 8), i |-> 0]

\* the bank and bit a digit position selects
ScatterStart(pos) ==
  IF pos >= 0 /\ pos <= 7
  THEN [Shift |-> U8(pos), i |-> 0]
  ELSE [Shift |-> U8(pos - 8), i |-> 1]

\* the outer loop of the common-anode branch
RECURSIVE ScatterLoop(_, _, _, _, _)
ScatterLoop(R, DigitData, StartAddr, Count, j) ==
  IF Stored(R) /\ j < Count
  THEN LET s == ScatterStart(j + StartAddr)
       IN  ScatterLoop(ScatterDigit(R, s.i, DigitData[j + 1], s.Shift),
                       DigitData, StartAddr, Count, j + 1)
  ELSE R

\* slip: the common-anode branch pushes Count registers from StartAddr, as
\* the common-cathode branch does, instead of the whole image
SetMultipleDigit_PartialPush(Type, R, L, DigitData, StartAddr, Count) ==
  IF Type = COM_CATHODE
  THEN [R |-> R,
        L |-> TM1629_SetMultipleDisplayRegister(L, DigitData, StartAddr, Count),
        ret |-> TM1629_OK]
  ELSE LET R1 == ScatterLoop(R, DigitData, StartAddr, Count, 0)
       IN  [R |-> R1,
            L |-> TM1629_SetMultipleDisplayRegister(L, R1, StartAddr, Count),
            ret |-> TM1629_OK]

\* slip: the image is pushed before the digits are scattered into it
SetMultipleDigit_PushBefore(Type, R, L, DigitData, StartAddr, Count) ==
  IF Type = COM_CATHODE
  THEN [R |-> R,
        L |-> TM1629_SetMultipleDisplayRegister(L, DigitData, StartAddr, Count),
        ret |-> TM1629_OK]
  ELSE [R |-> ScatterLoop(R, DigitData, StartAddr, Count, 0),
        L |-> TM1629_SetMultipleDisplayRegister(L, R, 0, 16),
        ret |-> TM1629_OK]

\* slip: the digits are scattered into the image in either polarity
SetMultipleDigit_ScatterAlways(Type, R, L, DigitData, StartAddr, Count) ==
  LET R1 == ScatterLoop(R, DigitData, StartAddr, Count, 0)
  IN  IF Type = COM_CATHODE
      THEN [R |-> R1,
            L |-> TM1629_SetMultipleDisplayRegister(L, DigitData, StartAddr, Count),
            ret |-> TM1629_OK]
      ELSE [R |-> R1,
            L |-> TM1629_SetMultipleDisplayRegister(L, R1, 0, 16),
            ret |-> TM1629_OK]

TM1629_SetMultipleDigit(Type, R, L, DigitData, StartAddr, Count) ==
  IF Type = COM_CATHODE
  THEN [R |-> R,
        L |-> TM1629_SetMultipleDisplayRegister(L, DigitData, StartAddr, Count),
        ret |-> TM1629_OK]
  ELSE LET R1 == ScatterLoop(R, DigitData, StartAddr, Count, 0)
       IN  [R |-> R1,
            L |-> TM1629_SetMultipleDisplayRegister(L, R1, 0, 16),
            ret |-> TM1629_OK]

\* slip: the single digit is written to its register in either polarity
SetSingleDigit_NoScatter(Type, R, L, DigitData, DigitPos) ==
  [R |-> R,
   L |-> TM1629_SetMultipleDisplayRegister(L, <<DigitData>>, DigitPos, 1),
   ret |-> TM1629_OK]

TM1629_SetSingleDigit(Type, R, L, DigitData, DigitPos) ==
  IF Type = COM_CATHODE
  THEN [R |-> R,
        L |-> TM1629_SetMultipleDisplayRegister(L, <<DigitData>>, DigitPos, 1),
        ret |-> TM1629_OK]
  ELSE [TM1629_SetMultipleDigit(Type, R, L, <<DigitData>>, DigitPos, 1)
          EXCEPT !.ret = TM1629_OK]

TM1629_SetSingleDigit_HEX(Type, R, L, DigitData, DigitPos) ==
  LET DigitDataOut == TM1629_HexTo7Seg(<<DigitData>>, 1)
  IN  TM1629_SetSingleDigit(Type, R, L, DigitDataOut[1], DigitPos)

\* Count > 16 is cut to 16
CapCount(Count) == IF Count > 16 THEN 16 ELSE Count

TM1629_SetMultipleDigit_HEX(Type, R, L, DigitData, StartAddr, Count) ==
  LET DigitDataOut == TM1629_HexTo7Seg(DigitData, CapCount(Count))
  IN  TM1629_SetMultipleDigit(Type, R, L, DigitDataOut, StartAddr, CapCount(Count))

\* the character argument is not read: a local zero byte is encoded instead
TM1629_SetSingleDigit_CHAR(Type, R, L, Char, DigitPos) ==
  LET DigitData == TM1629_StringTo7Seg(<<0>>, 1)
  IN  TM1629_SetSingleDigit(Type, R, L, DigitData[1], DigitPos)

TM1629_SetMultipleDigit_CHAR(Type, R, L, Str, StartAddr, Count) ==
  LET DigitData == TM1629_StringTo7Seg(Str, CapCount(Count))
  IN  TM1629_SetMultipleDigit(Type, R, L, DigitData, StartAddr, CapCount(Count))

\* slip: Brightness is not masked to its three bits
ConfigDisplay_NoMask(L, Brightness, DisplayState) ==
  LET Data == Or(Or(COMMAND_DISPLAY_CONTROL, Brightness),
                 IF DisplayState # TM1629_DISPLAY_STATE_OFF
                 THEN COMMAND_DC_DISPLAY_IS_ON
                 ELSE COMMAND_DC_DISPLAY_IS_OFF)
  IN  [L |-> TM1629_StopComunication(
               TM1629_WriteBytes(TM1629_StartComunication(L), <<Data>>, 1)),
       ret |-> TM1629_OK]

TM1629_ConfigDisplay(L, Brightness, DisplayState) ==
  LET Data == Or(Or(COMMAND_DISPLAY_CONTROL, And(Brightness, 7)),
                  IF DisplayState # TM1629_DISPLAY_STATE_OFF
                  THEN COMMAND_DC_DISPLAY_IS_ON
                  ELSE COMMAND_DC_DISPLAY_IS_OFF)
  IN  [L |-> TM1629_StopComunication(
               TM1629_WriteBytes(TM1629_StartComunication(L), <<Data>>, 1)),
       ret |-> TM1629_OK]

(***************************************************************************)
(* Keypad decoder.                                                         *)
(***************************************************************************)
\* slip: the bit is shifted in at the top end (KeysBuff >>= 1, then
\* |= 0x80000000)
ShiftIn_AtTop(KeysBuff, Reg, Mask) ==
  [n \in 0..31 |-> IF n = 31
                   THEN (IF And(Reg, Mask) # 0 THEN 1 ELSE 0)
                   ELSE KeysBuff[n + 1]]

\* KeysBuff <<= 1 on a uint32_t, then |= 1 when the tested bit is set
ShiftIn(KeysBuff, Reg, Mask) ==
  [n \in 0..31 |-> IF n = 0
                   THEN (IF And(Reg, Mask) # 0 THEN 1 ELSE 0)
                   ELSE KeysBuff[n - 1]]

\* true of every uint32_t; the register loop tests it so that KeysBuff is
\* computed register by register (see Settled)
Shifted(KeysBuff) == KeysBuff \in [0..31 -> {0, 1}]

\* slip: the bit Kn is shifted in before the bit Kn << 4
RECURSIVE ScanGroup_LowBitFirst(_, _, _, _)
ScanGroup_LowBitFirst(KeysBuff, KeyRegs, Kn, j) ==
  IF j >= 0
  THEN ScanGroup_LowBitFirst(
         ShiftIn(ShiftIn(KeysBuff, KeyRegs[j + 1], Kn), KeyRegs[j + 1], Kn * 16),
         KeyRegs, Kn, j - 1)
  ELSE KeysBuff

\* the inner loop of TM1629_ScanKeys: j = 3 down to 0
RECURSIVE ScanGroup(_, _, _, _)
ScanGroup(KeysBuff, KeyRegs, Kn, j) ==
  IF Shifted(KeysBuff) /\ j >= 0
  THEN ScanGroup(ShiftIn(ShiftIn(KeysBuff, KeyRegs[j + 1], Kn * 16),
                         KeyRegs[j + 1], Kn),
                 KeyRegs, Kn, j - 1)
  ELSE KeysBuff

\* slip: three key lines are decoded, as on a chip with 24 keys
RECURSIVE ScanDecode_ThreeGroups(_, _, _, _)
ScanDecode_ThreeGroups(KeysBuff, KeyRegs, Kn, i) ==
  IF i < 3
  THEN ScanDecode_ThreeGroups(ScanGroup(KeysBuff, KeyRegs, Kn, 3), KeyRegs,
                              U8(Kn * 2), i + 1)
  ELSE KeysBuff

\* the outer loop of TM1629_ScanKeys: i = 0 .. 3, Kn <<= 1
RECURSIVE ScanDecode(_, _, _, _)
ScanDecode(KeysBuff, KeyRegs, Kn, i) ==
  IF i < 4
  THEN ScanDecode(ScanGroup(KeysBuff, KeyRegs, Kn, 3), KeyRegs, U8(Kn * 2), i + 1)
  ELSE KeysBuff

\* returns [L, Keys, KeyRegs, ret]
TM1629_ScanKeys(L) ==
  LET S == TM1629_ScanKeyRegs(L)
  IN  [L |-> S.L, KeyRegs |-> S.KeyRegs,
       Keys |-> ScanDecode(Zero32, S.KeyRegs, 1, 0), ret |-> TM1629_OK]

(***************************************************************************)
(* Inputs of the public operations.                                        *)
(***************************************************************************)
Bytes == 0..255

\* DisplayRegister is not written by TM1629_Init: it holds whatever the
\* caller's memory held (zero for a static handler)
InitImages ==
  { [i \in 1..16 |-> 0],
    <<165, 90, 255, 0, 60, 195, 1, 128, 17, 238, 85, 170, 7, 224, 254, 127>> }

\* <<DigitData, DigitPos>> of a single-digit write: 0xFF and
\* 0x5B at every position, 0x00 in both banks, and positions past the last
\* register
SingleDigitArgs ==
  ({255, 91} \X (0..15)) \cup ({0} \X {0, 8, 15})
    \cup {<<255, 16>>, <<91, 17>>}

StartAddrs == {0, 6, 13}

DataArrays ==
  { <<63, 6, 91, 79, 102, 109, 125, 7>>,
    <<255, 0, 255, 0, 255, 0, 255, 0>> }

\* 8, 8|DP, 15, 'A', 'f'|DP, 16, '*', 16|DP
HexVals == {8, 136, 15, 65, 230, 16, 42, 144}

HexArrays == { <<1, 130, 98, 16, 13, 143, 70, 0>> }

\* '8', 'A', '*'|DP
CharVals == {56, 65, 170}

\* "8.bC-*_y", "8"|DP "H" "~" "q"|DP "0" "Z" "-" " " and
\* "8*b" "*"|DP "-_yA"
Strings ==
  { <<56, 46, 98, 67, 45, 42, 95, 121>>,
    <<184, 72, 126, 241, 48, 90, 45, 32>>,
    <<56, 42, 98, 170, 45, 95, 121, 65>> }

\* hex 8|DP and the character 'A' are also written to digit 9
HexArgs == (HexVals \X {0}) \cup {<<136, 9>>}

CharArgs == (CharVals \X {0}) \cup {<<65, 9>>}

GlyphAddrs == {6}

\* counts at and past the size of the display, with arrays long enough for
\* them: 17 segment bytes, 17 hex digits and the string "0123456789AbCdEFH"
LongCounts == {16, 17}

LongData == <<63, 6, 91, 79, 102, 109, 125, 7, 127, 111, 119, 124, 57, 94, 121, 113, 118>>

LongHex == <<0, 1, 2, 3, 4, 5, 6, 7, 8, 9, 10, 11, 12, 13, 14, 15, 1>>

LongString == <<48, 49, 50, 51, 52, 53, 54, 55, 56, 57, 65, 98, 67, 100, 69, 70, 72>>

BrightnessVals == {0, 7, 8, 255}

DisplayStateVals == {0, 1, 255}

OneHot(j, b) == [k \in 1..4 |-> IF k = j THEN Pow2(b) ELSE 0]

KeyRegVals ==
  { OneHot(j, b) : j \in 1..4, b \in 0..7 }
    \cup { <<0, 0, 0, 0>>, <<255, 255, 255, 255>>, <<18, 132, 33, 72>>, <<1, 0, 0, 128>> }

NoOp == [op |-> "none", data |-> <<>>, pos |-> 0, cnt |-> 0]

IdleLine == [stb |-> 1, clk |-> 1, dio |-> 0, dir |-> 1]

LineOf(L) == [stb |-> L.stb, clk |-> L.clk, dio |-> L.dio, dir |-> L.dir]

NoKeys == <<0, 0, 0, 0>>

(***************************************************************************)
(* The handler as the caller created it, before TM1629_Init.               *)
(***************************************************************************)
Init ==
  /\ inited = FALSE
  /\ DisplayType = COM_CATHODE
  /\ DisplayRegister \in InitImages
  /\ line = IdleLine
  /\ trace = <<>>
  /\ brackets = <<>>
  /\ lastOp = NoOp
  /\ prevRegister = DisplayRegister
  /\ ret = TM1629_OK
  /\ Keys = Zero32
  /\ nops = 0
  /\ Input = 0
  /\ Platform = GoodPlatform
  /\ run = NoRun

\* a static (zeroed) handler of a program that works on one input byte
InitByte ==
  /\ inited = FALSE
  /\ DisplayType = COM_CATHODE
  /\ DisplayRegister = [i \in 1..16 |-> 0]
  /\ line = IdleLine
  /\ trace = <<>>
  /\ brackets = <<>>
  /\ lastOp = NoOp
  /\ prevRegister = DisplayRegister
  /\ ret = TM1629_OK
  /\ Keys = Zero32
  /\ nops = 0
  /\ Input \in Bytes
  /\ Platform = GoodPlatform
  /\ run = NoRun

(***************************************************************************)
(* Actions: one per public function.                                       *)
(***************************************************************************)
\* what TM1629_Init returns on the platform P: the hook first, then the
\* back end
InitResult(P) ==
  IF Len(P.Init) > 0 /\ ~TM1629_CHECK_RES_PLATFORM(P.Init[1])
  THEN TM1629_FAIL
  ELSE IF TM1629_IS_COMMUNICATION_GPIO(P)
       THEN IF \/ "DirDIO" \notin P.Bound
               \/ "WriteSTB" \notin P.Bound
               \/ "WriteDIO" \notin P.Bound
               \/ "WriteCLK" \notin P.Bound
               \/ "ReadDIO" \notin P.Bound
               \/ "DelayUs" \notin P.Bound
            THEN TM1629_FAIL
            ELSE TM1629_OK
       ELSE IF TM1629_IS_COMMUNICATION_SPI(P)
            THEN TM1629_FAIL
            ELSE TM1629_OK

\* what TM1629_DeInit returns on the platform P
DeInitResult(P) ==
  IF Len(P.DeInit) > 0 /\ TM1629_CHECK_RES_PLATFORM(P.DeInit[1])
  THEN TM1629_FAIL
  ELSE TM1629_OK

\* inited says that TM1629_Init has run, whatever it returned: no public
\* function looks at the result of TM1629_Init.  TM1629_Init and
\* TM1629_DeInit call the hook when one is bound: lastOp.data holds what the
\* hook returned, and is empty when no hook was called
TM1629_Init(Type) ==
  /\ ~inited
  /\ lastOp = NoOp
  /\ inited' = TRUE
  /\ DisplayType' = IF Type = COM_CATHODE THEN COM_CATHODE ELSE COM_ANODE
  /\ ret' = InitResult(Platform)
  /\ lastOp' = [op |-> "Init",
                data |-> IF Len(Platform.Init) > 0 THEN <<Platform.Init[1]>> ELSE <<>>,
                pos |-> 0, cnt |-> 0]
  /\ prevRegister' = DisplayRegister
  /\ UNCHANGED <<DisplayRegister, line, trace, brackets, Keys, nops, Input, Platform, run>>

\* the caller has taken the result of the last operation: what it left for
\* inspection is dropped, the handler and the lines stay as they are
Return ==
  /\ lastOp # NoOp
  /\ lastOp' = NoOp
  /\ trace' = <<>>
  /\ brackets' = <<>>
  /\ prevRegister' = DisplayRegister
  /\ ret' = TM1629_OK
  /\ Keys' = Zero32
  /\ UNCHANGED <<inited, DisplayType, DisplayRegister, line, nops, Input, Platform, run>>

TM1629_DeInit ==
  /\ inited
  /\ lastOp = NoOp
  /\ inited' = FALSE
  /\ ret' = DeInitResult(Platform)
  /\ lastOp' = [op |-> "DeInit",
                data |-> IF Len(Platform.DeInit) > 0 THEN <<Platform.DeInit[1]>> ELSE <<>>,
                pos |-> 0, cnt |-> 0]
  /\ prevRegister' = DisplayRegister
  /\ UNCHANGED <<DisplayType, DisplayRegister, line, trace, brackets, Keys, nops, Input,
                 Platform, run>>

\* every pointer a transfer calls through is bound: a call through a null
\* pointer does not come back, so it leaves nothing to look at
Callable(P) ==
  /\ "WriteSTB" \in P.Bound
  /\ TM1629_IS_COMMUNICATION_GPIO(P) => Primitives \subseteq P.Bound

CanRun == inited /\ lastOp = NoOp /\ nops < MaxOps /\ Callable(Platform)

\* what a display operation leaves behind; res = [R, L, ret]
Display(op, data, pos, cnt, res) ==
  /\ DisplayRegister' = res.R
  /\ line' = LineOf(res.L)
  /\ trace' = res.L.ev
  /\ brackets' = res.L.br
  /\ ret' = res.ret
  /\ lastOp' = [op |-> op, data |-> data, pos |-> pos, cnt |-> cnt]
  /\ prevRegister' = DisplayRegister
  /\ nops' = nops + 1
  /\ UNCHANGED <<inited, DisplayType, Keys, Input, Platform, run>>

SetSingleDigit(DigitData, DigitPos) ==
  /\ CanRun
  /\ Display("SetSingleDigit", <<DigitData>>, DigitPos, 1,
             TM1629_SetSingleDigit(DisplayType, DisplayRegister,
                                   BusStart(line, NoKeys), DigitData, DigitPos))

SetMultipleDigit(DigitData, StartAddr, Count) ==
  /\ CanRun
  /\ Display("SetMultipleDigit", DigitData, StartAddr, Count,
             TM1629_SetMultipleDigit(DisplayType, DisplayRegister,
                                     BusStart(line, NoKeys), DigitData, StartAddr, Count))

SetSingleDigit_HEX(DigitData, DigitPos) ==
  /\ CanRun
  /\ Display("SetSingleDigit_HEX", <<DigitData>>, DigitPos, 1,
             TM1629_SetSingleDigit_HEX(DisplayType, DisplayRegister,
                                       BusStart(line, NoKeys), DigitData, DigitPos))

SetMultipleDigit_HEX(DigitData, StartAddr, Count) ==
  /\ CanRun
  /\ Display("SetMultipleDigit_HEX", DigitData, StartAddr, Count,
             TM1629_SetMultipleDigit_HEX(DisplayType, DisplayRegister,
                                         BusStart(line, NoKeys), DigitData, StartAddr, Count))

SetSingleDigit_CHAR(Char, DigitPos) ==
  /\ CanRun
  /\ Display("SetSingleDigit_CHAR", <<Char>>, DigitPos, 1,
             TM1629_SetSingleDigit_CHAR(DisplayType, DisplayRegister,
                                        BusStart(line, NoKeys), Char, DigitPos))

SetMultipleDigit_CHAR(Str, StartAddr, Count) ==
  /\ CanRun
  /\ Display("SetMultipleDigit_CHAR", Str, StartAddr, Count,
             TM1629_SetMultipleDigit_CHAR(DisplayType, DisplayRegister,
                                          BusStart(line, NoKeys), Str, StartAddr, Count))

ConfigDisplay(Brightness, DisplayState) ==
  /\ CanRun
  /\ LET res == TM1629_ConfigDisplay(BusStart(line, NoKeys), Brightness, DisplayState)
     IN  /\ line' = LineOf(res.L)
         /\ trace' = res.L.ev
         /\ brackets' = res.L.br
         /\ ret' = res.ret
  /\ lastOp' = [op |-> "ConfigDisplay", data |-> <<Brightness, DisplayState>>,
                pos |-> 0, cnt |-> 0]
  /\ prevRegister' = DisplayRegister
  /\ nops' = nops + 1
  /\ UNCHANGED <<inited, DisplayType, DisplayRegister, Keys, Input, Platform, run>>

\* the bytes a read without a defined value can yield: KeyRegs is never
\* written when the SPI stub is the back end, and a failed ReadDIO is
\* shifted as a negative number
Undefined(P) ==
  IF TM1629_IS_COMMUNICATION_GPIO(P) /\ P.Fault # "ReadDIO" THEN {0} ELSE {0, 255}

\* Regs: what the chip's key-scan registers hold while the scan runs
ScanKeys(Regs) ==
  /\ CanRun
  /\ \E u \in Undefined(Platform) :
     LET res == TM1629_ScanKeys([BusStart(line, Regs) EXCEPT !.ub = u])
     IN  /\ line' = LineOf(res.L)
         /\ trace' = res.L.ev
         /\ brackets' = res.L.br
         /\ ret' = res.ret
         /\ Keys' = res.Keys
  /\ lastOp' = [op |-> "ScanKeys", data |-> Regs, pos |-> 0, cnt |-> 0]
  /\ prevRegister' = DisplayRegister
  /\ nops' = nops + 1
  /\ UNCHANGED <<inited, DisplayType, DisplayRegister, Input, Platform, run>>

DoInit == \E Type \in {COM_CATHODE, COM_ANODE} : TM1629_Init(Type)

DoSetSingleDigit == \E a \in SingleDigitArgs : SetSingleDigit(a[1], a[2])

DoSetMultipleDigit ==
  \E d \in DataArrays, a \in StartAddrs, n \in 0..MaxCount : SetMultipleDigit(d, a, n)

DoSetSingleDigit_HEX == \E a \in HexArgs : SetSingleDigit_HEX(a[1], a[2])

DoSetMultipleDigit_HEX ==
  \E d \in HexArrays, a \in GlyphAddrs, n \in 0..MaxCount : SetMultipleDigit_HEX(d, a, n)

DoSetSingleDigit_CHAR == \E a \in CharArgs : SetSingleDigit_CHAR(a[1], a[2])

DoSetMultipleDigit_CHAR ==
  \E s \in Strings, a \in GlyphAddrs, n \in 0..MaxCount : SetMultipleDigit_CHAR(s, a, n)

DoConfigDisplay ==
  \E b \in BrightnessVals, s \in DisplayStateVals : ConfigDisplay(b, s)

DoScanKeys == \E r \in KeyRegVals : ScanKeys(r)

\* writes of a whole display and of one digit more
DoSetMultipleDigit_Long == \E n \in LongCounts : SetMultipleDigit(LongData, 0, n)

DoSetMultipleDigit_HEX_Long == \E n \in LongCounts : SetMultipleDigit_HEX(LongHex, 0, n)

DoSetMultipleDigit_CHAR_Long ==
  \E n \in LongCounts : SetMultipleDigit_CHAR(LongString, 0, n)

Next ==
  \/ DoInit
  \/ DoSetSingleDigit
  \/ DoSetMultipleDigit
  \/ DoSetSingleDigit_HEX
  \/ DoSetMultipleDigit_HEX
  \/ DoSetSingleDigit_CHAR
  \/ DoSetMultipleDigit_CHAR
  \/ DoConfigDisplay
  \/ DoScanKeys
  \/ DoSetMultipleDigit_Long
  \/ DoSetMultipleDigit_HEX_Long
  \/ DoSetMultipleDigit_CHAR_Long
  \/ Return

Spec == Init /\ [][Next]_vars

\* a program that passes the byte Input, any of the 256, to each function
\* that encodes or masks its argument: as the glyph shown at digit 0, as the
\* brightness and as the display state
ByteSingleHEX == SetSingleDigit_HEX(Input, 0)

ByteMultipleHEX == SetMultipleDigit_HEX(<<Input>>, 0, 1)

ByteSingleCHAR == SetSingleDigit_CHAR(Input, 0)

ByteMultipleCHAR == SetMultipleDigit_CHAR(<<Input>>, 0, 1)

ByteBrightness == \E s \in DisplayStateVals : ConfigDisplay(Input, s)

ByteDisplayState == \E b \in BrightnessVals : ConfigDisplay(b, Input)

NextByte ==
  \/ DoInit
  \/ ByteSingleHEX
  \/ ByteMultipleHEX
  \/ ByteSingleCHAR
  \/ ByteMultipleCHAR
  \/ ByteBrightness
  \/ ByteDisplayState
  \/ Return

SpecByte == InitByte /\ [][NextByte]_vars

(***************************************************************************)
(* A program on any platform: each build, each communication mode, the     *)
(* Init hook absent or returning 0, 1 or -1, all primitives bound, one     *)
(* missing or none bound; the DeInit hook absent or returning 0, 1 or -1;  *)
(* and each primitive in turn signalling an error.                         *)
(***************************************************************************)
Hooks == { <<>>, <<0>>, <<1>>, <<-1>> }

\* "Other": the Communication field holds a value that is neither of the
\* two enumerators (2, or whatever a handler that was never set holds)
Builds ==
  { [SupportSPI |-> FALSE, Communication |-> "GPIO"],
    [SupportSPI |-> TRUE, Communication |-> "GPIO"],
    [SupportSPI |-> TRUE, Communication |-> "SPI"],
    [SupportSPI |-> TRUE, Communication |-> "Other"] }

Bindings == {Primitives} \cup {Primitives \ {p} : p \in Primitives} \cup {{}}

Platforms ==
  { [GoodPlatform EXCEPT !.SupportSPI = b.SupportSPI,
                         !.Communication = b.Communication,
                         !.Init = h, !.Bound = B] :
      b \in Builds, h \in Hooks, B \in Bindings }
    \cup { [GoodPlatform EXCEPT !.DeInit = h] : h \in Hooks }
    \cup { [GoodPlatform EXCEPT !.Fault = p] : p \in Primitives }

InitPlatform ==
  /\ inited = FALSE
  /\ DisplayType = COM_CATHODE
  /\ DisplayRegister = [i \in 1..16 |-> 0]
  /\ line = IdleLine
  /\ trace = <<>>
  /\ brackets = <<>>
  /\ lastOp = NoOp
  /\ prevRegister = DisplayRegister
  /\ ret = TM1629_OK
  /\ Keys = Zero32
  /\ nops = 0
  /\ Input = 0
  /\ Platform \in Platforms
  /\ run = NoRun

\* the calls of the example program and one call of every other function
PlatformConfigDisplay == ConfigDisplay(7, 1)

PlatformSetSingleDigit == SetSingleDigit(91, 0)

PlatformSetMultipleDigit == SetMultipleDigit(<<63, 6>>, 0, 2)

PlatformSetSingleDigit_HEX == SetSingleDigit_HEX(136, 0)

PlatformSetMultipleDigit_HEX == SetMultipleDigit_HEX(<<1, 130>>, 0, 2)

PlatformSetSingleDigit_CHAR == SetSingleDigit_CHAR(65, 0)

PlatformSetMultipleDigit_CHAR == SetMultipleDigit_CHAR(<<56, 98>>, 0, 2)

PlatformScanKeys == \E r \in { <<1, 0, 0, 128>>, <<18, 132, 33, 72>> } : ScanKeys(r)

NextPlatform ==
  \/ DoInit
  \/ TM1629_DeInit
  \/ PlatformConfigDisplay
  \/ PlatformSetSingleDigit
  \/ PlatformSetMultipleDigit
  \/ PlatformSetSingleDigit_HEX
  \/ PlatformSetMultipleDigit_HEX
  \/ PlatformSetSingleDigit_CHAR
  \/ PlatformSetMultipleDigit_CHAR
  \/ PlatformScanKeys
  \/ Return

SpecPlatform == InitPlatform /\ [][NextPlatform]_vars

(***************************************************************************)
(* A program that makes one call after another on the README's platform:   *)
(* trace and brackets run on from call to call.  The segment bytes and the *)
(* key registers include values that read as command bytes (0x40, 0x42,    *)
(* 0x8F, 0xC0).                                                            *)
(***************************************************************************)
InitSeq ==
  /\ inited = FALSE
  /\ DisplayType = COM_CATHODE
  /\ DisplayRegister = [i \in 1..16 |-> 0]
  /\ line = IdleLine
  /\ trace = <<>>
  /\ brackets = <<>>
  /\ lastOp = NoOp
  /\ prevRegister = DisplayRegister
  /\ ret = TM1629_OK
  /\ Keys = Zero32
  /\ nops = 0
  /\ Input = 0
  /\ Platform = GoodPlatform
  /\ run = NoRun

\* the call has returned and the program goes on to its next call: the pins
\* and what they have carried so far stay as they are
NextCall ==
  /\ lastOp # NoOp
  /\ Len(brackets) < MaxBrackets
  /\ lastOp' = NoOp
  /\ nops' = 0
  /\ UNCHANGED <<inited, DisplayType, DisplayRegister, line, trace, brackets,
                 prevRegister, ret, Keys, Input, Platform, run>>

SeqConfigDisplay == ConfigDisplay(7, 1)

SeqSetSingleDigit == \E a \in { <<91, 3>>, <<64, 15>> } : SetSingleDigit(a[1], a[2])

SeqSetMultipleDigit == \E n \in {0, 2} : SetMultipleDigit(<<66, 192>>, 0, n)

SeqSetSingleDigit_HEX == SetSingleDigit_HEX(136, 0)

SeqSetMultipleDigit_CHAR == SetMultipleDigit_CHAR(<<56, 98>>, 6, 2)

SeqScanKeys == \E r \in { <<64, 143, 192, 66>>, <<0, 0, 0, 0>> } : ScanKeys(r)

NextSeq ==
  \/ DoInit
  \/ TM1629_DeInit
  \/ SeqConfigDisplay
  \/ SeqSetSingleDigit
  \/ SeqSetMultipleDigit
  \/ SeqSetSingleDigit_HEX
  \/ SeqSetMultipleDigit_CHAR
  \/ SeqScanKeys
  \/ NextCall

SpecSeq == InitSeq /\ [][NextSeq]_vars

(***************************************************************************)
(* A program that writes the digits of a common-anode display, one call    *)
(* after another, every position within 0..15, and keeps in Input the      *)
(* segment byte it wrote last to each digit position (-1: none yet).  The  *)
(* handler is as TM1629_Init(Handler, COM_ANODE) leaves it; trace and      *)
(* brackets are those of the last call.                                    *)
(***************************************************************************)
InitShadow ==
  /\ inited = TRUE
  /\ DisplayType = COM_ANODE
  /\ DisplayRegister \in InitImages
  /\ line = IdleLine
  /\ trace = <<>>
  /\ brackets = <<>>
  /\ lastOp = NoOp
  /\ prevRegister = DisplayRegister
  /\ ret = TM1629_OK
  /\ Keys = Zero32
  /\ nops = 0
  /\ Input = [d \in 0..15 |-> -1]
  /\ Platform = GoodPlatform
  /\ run = NoRun

\* TM1629_SetSingleDigit(DigitData[0], StartAddr) when Count = 0, else
\* TM1629_SetMultipleDigit(DigitData, StartAddr, Count)
ShadowWrite(DigitData, StartAddr, Count) ==
  /\ nops < MaxWrites
  /\ LET L == [BusStart(line, NoKeys) EXCEPT !.ev = <<>>, !.br = <<>>]
         n == IF Count = 0 THEN 1 ELSE Count
         res == IF Count = 0
                THEN TM1629_SetSingleDigit(DisplayType, DisplayRegister, L,
                                           DigitData[1], StartAddr)
                ELSE TM1629_SetMultipleDigit(DisplayType, DisplayRegister, L,
                                             DigitData, StartAddr, Count)
     IN  /\ DisplayRegister' = res.R
         /\ line' = LineOf(res.L)
         /\ trace' = res.L.ev
         /\ brackets' = res.L.br
         /\ ret' = res.ret
         /\ lastOp' = [op |-> IF Count = 0 THEN "SetSingleDigit" ELSE "SetMultipleDigit",
                       data |-> DigitData, pos |-> StartAddr, cnt |-> n]
         /\ Input' = [d \in 0..15 |->
                        IF d - StartAddr \in 0..(n - 1)
                        THEN DigitData[d - StartAddr + 1]
                        ELSE Input[d]]
  /\ prevRegister' = DisplayRegister
  /\ nops' = nops + 1
  /\ UNCHANGED <<inited, DisplayType, Keys, Platform, run>>

NextShadow ==
  \/ \E a \in { <<91, 3>>, <<6, 12>>, <<0, 3>> } : ShadowWrite(<<a[1]>>, a[2], 0)
  \/ \E a \in { <<7, 3>>, <<0, 16>> } : ShadowWrite(LongData, a[1], a[2])

SpecShadow == InitShadow /\ [][NextShadow]_vars

(***************************************************************************)
(* The calls statement by statement.  A caller's call in progress is the   *)
(* sequence todo of what it has still to execute: a platform call          *)
(*   <<"STB", v>> <<"CLK", v>> <<"DIO", v>> <<"DIR", d>> <<"DLY", us>>     *)
(*   <<"RD", i>> <<"HOOK", r>>                                             *)
(* an assignment to a local or to the shadow image                         *)
(*   <<"Clear">> <<"Store", j>> <<"Bit", Buff, Shift, i>>                  *)
(*   <<"Shift", Kn, j>> <<"Out">>                                          *)
(* or a function or loop still to be entered, with its arguments and its   *)
(* counter.  One step executes the head of todo: a platform call acts on   *)
(* the bus, an assignment on the caller's locals or the image, and a       *)
(* function or a loop test is replaced by what it has to execute next.     *)
(* Counters are uint8_t (int8_t in the key decoder) as in the code.        *)
(*                                                                         *)
(* The machine S is                                                        *)
(*   L       the bus (ev is not kept)                                      *)
(*   R       Handler->DisplayRegister                                      *)
(*   Type    Handler->DisplayType                                          *)
(*   calls   per caller [op, todo, Buff, KeyRegs, KeysBuff, Keys]          *)
(*   log     whether the bits moved are kept (cur, br) with, per bit, the  *)
(*           caller that clocked it (own for cur, owners for br)           *)
(*   wrap    what the build makes of 1 << Shift for Shift > 31: TRUE when  *)
(*           the shifter takes Shift modulo 32, FALSE when it yields 0     *)
(*   at, preempted   the caller that ran last, and the callers that have   *)
(*           been preempted                                                *)
(***************************************************************************)
\* a caller's array argument, and the shadow image passed as an array
Arg(bytes) == [mem |-> "arg", bytes |-> bytes]

Shadow == [mem |-> "DisplayRegister", bytes |-> <<>>]

\* Data[j]; the arrays drawn are as long as Count, a read past the end
\* yields 0
Deref(S, Data, j) ==
  IF Data.mem = "DisplayRegister"
  THEN (IF j < 16 THEN S.R[j + 1] ELSE 0)
  ELSE (IF j < Len(Data.bytes) THEN Data.bytes[j + 1] ELSE 0)

\* the shift that leaves in a byte what 1 << Shift leaves there: the result
\* is defined up to 30, has a zero low byte from 8 to 31, and beyond 31 is
\* what the build's shifter yields
ShiftInByte(Shift, wrap) ==
  IF Shift <= 30 THEN Shift
  ELSE IF wrap /\ Shift % 32 < 8 THEN Shift % 32
  ELSE 8

\* slip: the bit counter is not advanced
WriteBytesGPIO_NoIncrement(S, it) ==
  IF it[1] = "WriteBytesGPIO"
  THEN IF it[4] < it[3]
       THEN << <<"WriteBit", Deref(S, it[2], it[4]), 0>>,
               <<"WriteBytesGPIO", it[2], it[3], U8(it[4] + 1)>> >>
       ELSE <<>>
  ELSE IF it[3] < 8
       THEN << <<"CLK", 0>>, <<"DLY", 1>>, <<"DIO", And(it[2], 1)>>,
               <<"CLK", 1>>, <<"DLY", 1>>,
               <<"WriteBit", it[2] \div 2, it[3]>> >>
       ELSE <<>>

\* the loops of TM1629_WriteBytesGPIO:
\*   <<"WriteBytesGPIO", Data, NumOfBytes, j>>   the test j < NumOfBytes
\*   <<"WriteBit", Buff, i>>                     the test i < 8
WriteBytesGPIO_Loops(S, it) ==
  IF it[1] = "WriteBytesGPIO"
  THEN IF it[4] < it[3]
       THEN << <<"WriteBit", Deref(S, it[2], it[4]), 0>>,
               <<"WriteBytesGPIO", it[2], it[3], U8(it[4] + 1)>> >>
       ELSE <<>>
  ELSE IF it[3] < 8
       THEN << <<"CLK", 0>>, <<"DLY", 1>>, <<"DIO", And(it[2], 1)>>,
               <<"CLK", 1>>, <<"DLY", 1>>,
               <<"WriteBit", it[2] \div 2, U8(it[3] + 1)>> >>
       ELSE <<>>

\* the loops of TM1629_ReadBytesGPIO:
\*   <<"ReadBytesGPIO", NumOfBytes, j>>   the test j < NumOfBytes
\*   <<"ReadBit", i>>                     the test i < 8
ReadBytesGPIO_Loops(it) ==
  IF it[1] = "ReadBytesGPIO"
  THEN IF it[3] < it[2]
       THEN << <<"Clear">>, <<"ReadBit", 0>>, <<"Store", it[3]>>, <<"DLY", 2>>,
               <<"ReadBytesGPIO", it[2], U8(it[3] + 1)>> >>
       ELSE <<>>
  ELSE IF it[2] < 8
       THEN << <<"CLK", 0>>, <<"DLY", 1>>, <<"CLK", 1>>, <<"RD", it[2]>>,
               <<"DLY", 1>>, <<"ReadBit", U8(it[2] + 1)>> >>
       ELSE <<>>

\* the transfers and the command framer:
\*   <<"WriteBytes", Data, NumOfBytes>>   <<"ReadBytes", NumOfBytes>>
\*   <<"SetMultipleDisplayRegister", DigitData, StartAddr, Count>>
\*   <<"ScanKeyRegs">>
Framer(P, it) ==
  CASE it[1] = "WriteBytes" ->
         IF TM1629_IS_COMMUNICATION_GPIO(P)
         THEN << <<"DIR", 1>>, <<"WriteBytesGPIO", it[2], it[3], 0>> >>
         ELSE <<>>
    [] it[1] = "ReadBytes" ->
         IF TM1629_IS_COMMUNICATION_GPIO(P)
         THEN << <<"DIR", 0>>, <<"DLY", 5>>, <<"ReadBytesGPIO", it[2], 0>> >>
         ELSE <<>>
    [] it[1] = "SetMultipleDisplayRegister" ->
         LET Data1 == Or(Or(COMMAND_DATA_READING_WRITING_SETTING,
                            COMMAND_DRWS_WRITE_DATA_TO_DISPLAY_REGISTER),
                         Or(COMMAND_DRWS_AUTO_INCREASE_OF_ADDRESS,
                            COMMAND_DRWS_NORMAL_MODE))
             Data2 == U8(Or(COMMAND_ADDRESS_SETTING, it[3]))
         IN  << <<"STB", 0>>, <<"WriteBytes", Arg(<<Data1>>), 1>>, <<"STB", 1>>,
                <<"STB", 0>>, <<"WriteBytes", Arg(<<Data2>>), 1>>,
                <<"WriteBytes", it[2], it[4]>>, <<"STB", 1>> >>
    [] OTHER ->
         LET Data == Or(Or(COMMAND_DATA_READING_WRITING_SETTING,
                           COMMAND_DRWS_READ_KEY_SCANNING_DATA),
                        Or(COMMAND_DRWS_AUTO_INCREASE_OF_ADDRESS,
                           COMMAND_DRWS_NORMAL_MODE))
         IN  << <<"STB", 0>>, <<"WriteBytes", Arg(<<Data>>), 1>>,
                <<"ReadBytes", 4>>, <<"STB", 1>> >>

\* the display writers of the core:
\*   <<"SetSingleDigit", DigitData, DigitPos>>
\*   <<"SetMultipleDigit", DigitData, StartAddr, Count>>
\*   <<"Scatter", DigitData, StartAddr, Count, j>>   the test j < Count
\*   <<"Digit", DigitDataBuff, Shift, i>>            the test i < 16
\*   <<"ConfigDisplay", Brightness, DisplayState>>
Writer(S, it) ==
  CASE it[1] = "SetSingleDigit" ->
         IF S.Type = COM_CATHODE
         THEN << <<"SetMultipleDisplayRegister", Arg(<<it[2]>>), it[3], 1>> >>
         ELSE << <<"SetMultipleDigit", Arg(<<it[2]>>), it[3], 1>> >>
    [] it[1] = "SetMultipleDigit" ->
         IF S.Type = COM_CATHODE
         THEN << <<"SetMultipleDisplayRegister", it[2], it[3], it[4]>> >>
         ELSE << <<"Scatter", it[2], it[3], it[4], 0>>,
                 <<"SetMultipleDisplayRegister", Shadow, 0, 16>> >>
    [] it[1] = "Scatter" ->
         IF it[5] < it[4]
         THEN LET s == ScatterStart(it[5] + it[3])
              IN  << <<"Digit", Deref(S, it[2], it[5]), s.Shift, s.i>>,
                     <<"Scatter", it[2], it[3], it[4], U8(it[5] + 1)>> >>
         ELSE <<>>
    [] it[1] = "Digit" ->
         IF it[4] < 16
         THEN << <<"Bit", it[2], it[3], it[4]>>,
                 <<"Digit", it[2] \div 2, it[3], U8(it[4] + 2)>> >>
         ELSE <<>>
    [] OTHER ->
         LET Data == Or(Or(COMMAND_DISPLAY_CONTROL, And(it[2], 7)),
                        IF it[3] # TM1629_DISPLAY_STATE_OFF
                        THEN COMMAND_DC_DISPLAY_IS_ON
                        ELSE COMMAND_DC_DISPLAY_IS_OFF)
         IN  << <<"STB", 0>>, <<"WriteBytes", Arg(<<Data>>), 1>>, <<"STB", 1>> >>

\* the encoding writers and the key scan:
\*   <<"SetSingleDigit_HEX", DigitData, DigitPos>>
\*   <<"SetMultipleDigit_HEX", DigitData, StartAddr, Count>>
\*   <<"SetSingleDigit_CHAR", DigitData, DigitPos>>
\*   <<"SetMultipleDigit_CHAR", Str, StartAddr, Count>>
\*   <<"Encode", Count, i>>   the test i < Count of the two encoders
\*   <<"ScanKeys">>
\*   <<"Decode", Kn, i>>      the test i < 4
\*   <<"Group", Kn, j>>       the test j >= 0
Encoders(it) ==
  CASE it[1] = "SetSingleDigit_HEX" ->
         << <<"Encode", 1, 0>>,
            <<"SetSingleDigit", TM1629_HexTo7Seg(<<it[2]>>, 1)[1], it[3]>> >>
    [] it[1] = "SetMultipleDigit_HEX" ->
         << <<"Encode", CapCount(it[4]), 0>>,
            <<"SetMultipleDigit",
              Arg(TM1629_HexTo7Seg(it[2].bytes, CapCount(it[4]))), it[3],
              CapCount(it[4])>> >>
    [] it[1] = "SetSingleDigit_CHAR" ->
         << <<"Encode", 1, 0>>,
            <<"SetSingleDigit", TM1629_StringTo7Seg(<<0>>, 1)[1], it[3]>> >>
    [] it[1] = "SetMultipleDigit_CHAR" ->
         << <<"Encode", CapCount(it[4]), 0>>,
            <<"SetMultipleDigit",
              Arg(TM1629_StringTo7Seg(it[2].bytes, CapCount(it[4]))), it[3],
              CapCount(it[4])>> >>
    [] it[1] = "Encode" ->
         IF it[3] < it[2] THEN << <<"Encode", it[2], U8(it[3] + 1)>> >> ELSE <<>>
    [] it[1] = "ScanKeys" ->
         << <<"ScanKeyRegs">>, <<"Decode", 1, 0>> >>
    [] it[1] = "Decode" ->
         IF it[3] < 4
         THEN << <<"Group", it[2], 3>>, <<"Decode", U8(it[2] * 2), U8(it[3] + 1)>> >>
         ELSE << <<"Out">> >>
    [] OTHER ->
         IF it[3] >= 0
         THEN << <<"Shift", it[2], it[3]>>, <<"Group", it[2], it[3] - 1>> >>
         ELSE <<>>

\* what the head `it` of todo is replaced by when it is a function or a
\* loop.  <<"Init", Type>> and <<"DeInit">> call the hook when it is bound;
\* the pointer checks of TM1629_Init call nothing
Unfold(S, it) ==
  CASE it[1] \in {"WriteBytesGPIO", "WriteBit"} -> WriteBytesGPIO_Loops(S, it)
    [] it[1] \in {"ReadBytesGPIO", "ReadBit"} -> ReadBytesGPIO_Loops(it)
    [] it[1] \in {"WriteBytes", "ReadBytes", "SetMultipleDisplayRegister",
                  "ScanKeyRegs"} -> Framer(S.L.pf, it)
    [] it[1] \in {"SetSingleDigit", "SetMultipleDigit", "Scatter", "Digit",
                  "ConfigDisplay"} -> Writer(S, it)
    [] it[1] = "Init" ->
         (IF Len(S.L.pf.Init) > 0 THEN << <<"HOOK", S.L.pf.Init[1]>> >> ELSE <<>>)
    [] it[1] = "DeInit" ->
         (IF Len(S.L.pf.DeInit) > 0 THEN << <<"HOOK", S.L.pf.DeInit[1]>> >> ELSE <<>>)
    [] OTHER -> Encoders(it)

\* the bus after the platform call `it`; a hook leaves the bus alone
PinCall(L, it) ==
  CASE it[1] = "STB" -> WriteSTB(L, it[2])
    [] it[1] = "CLK" -> WriteCLK(L, it[2])
    [] it[1] = "DIO" -> WriteDIO(L, it[2])
    [] it[1] = "DIR" -> DirDIO(L, it[2])
    [] it[1] = "DLY" -> DelayUs(L, it[2])
    [] it[1] = "RD" -> ReadDIO(L)
    [] OTHER -> L

\* the caller's locals after the step `it`, todo apart: Buff of
\* TM1629_ReadBytesGPIO, KeyRegs and KeysBuff of TM1629_ScanKeys, and *Keys
Locals(S, me, it) ==
  CASE it[1] = "RD" ->
         [me EXCEPT !.Buff = U8(Or(@, ShiftLevel(S.L, ReadDIOLevel(S.L), it[2])))]
    [] it[1] = "Clear" -> [me EXCEPT !.Buff = 0]
    [] it[1] = "Store" ->
         [me EXCEPT !.KeyRegs = [k \in 1..4 |-> IF k = it[2] + 1 THEN me.Buff ELSE @[k]]]
    [] it[1] = "Shift" ->
         [me EXCEPT !.KeysBuff =
            ShiftIn(ShiftIn(@, me.KeyRegs[it[3] + 1], it[2] * 16),
                    me.KeyRegs[it[3] + 1], it[2])]
    [] it[1] = "ScanKeys" -> [me EXCEPT !.KeysBuff = Zero32]
    [] it[1] = "Out" -> [me EXCEPT !.Keys = me.KeysBuff]
    [] OTHER -> me

\* the shadow image after the step `it`: one pass of the inner loop of the
\* common-anode branch
Image(S, it) ==
  IF it[1] = "Bit"
  THEN [S.R EXCEPT ![it[4] + 1] =
          IF And(it[2], 1) = 1
          THEN OrAssign(@, Shl1(ShiftInByte(it[3], S.wrap)))
          ELSE AndNotAssign(@, Shl1(ShiftInByte(it[3], S.wrap)))]
  ELSE S.R

\* caller c executes the head of its todo.  Of the bus the step leaves, the
\* events are not kept, and the bits moved are kept when S.log
Exec(S, c) ==
  LET PinCalls == {"STB", "CLK", "DIO", "DIR", "DLY", "RD", "HOOK"}
      Assignments == {"Clear", "Store", "Bit", "Shift", "Out"}
      me == S.calls[c]
      it == Head(me.todo)
      L1 == IF it[1] \in PinCalls THEN PinCall(S.L, it) ELSE S.L
      todo1 == IF it[1] \in PinCalls \cup Assignments
               THEN Tail(me.todo)
               ELSE Unfold(S, it) \o Tail(me.todo)
      opened == S.L.stb = 1 /\ L1.stb = 0
      closed == S.L.stb = 0 /\ L1.stb = 1
      moved == Len(L1.cur) > Len(S.L.cur)
  IN  [S EXCEPT
         !.L = IF S.log THEN [L1 EXCEPT !.ev = <<>>]
                ELSE [L1 EXCEPT !.ev = <<>>, !.cur = <<>>, !.br = <<>>],
         !.R = Image(S, it),
         !.Type = IF it[1] = "Init"
                  THEN (IF it[2] = COM_CATHODE THEN COM_CATHODE ELSE COM_ANODE)
                  ELSE @,
         !.calls[c] = [Locals(S, me, it) EXCEPT !.todo = todo1],
         !.own = IF ~S.log \/ opened THEN <<>>
                 ELSE IF moved THEN Append(@, c) ELSE @,
         !.owners = IF S.log /\ closed THEN Append(@, S.own) ELSE @]

\* the machine in the state variables, and back
Machine ==
  [L |-> [BusStart(line, run.keys) EXCEPT !.ev = <<>>, !.cur = run.cur,
                                          !.rclk = run.rclk],
   R |-> DisplayRegister, Type |-> DisplayType, calls |-> run.calls,
   log |-> run.log, wrap |-> run.wrap, own |-> run.own, owners |-> run.owners]

Put(S, c, preempts) ==
  /\ line' = LineOf(S.L)
  /\ brackets' = S.L.br
  /\ DisplayRegister' = S.R
  /\ DisplayType' = S.Type
  /\ run' = [run EXCEPT !.cur = S.L.cur, !.rclk = S.L.rclk, !.calls = S.calls,
                        !.own = S.own, !.owners = S.owners, !.at = c,
                        !.preempted = @ \cup preempts]
  /\ UNCHANGED <<inited, trace, lastOp, prevRegister, ret, Keys, nops, Input, Platform>>

\* a caller that has entered `call` and executed nothing of it yet
Caller(call) ==
  [op |-> call, todo |-> <<call>>, Buff |-> 0, KeyRegs |-> NoKeys,
   KeysBuff |-> Zero32, Keys |-> Zero32]

\* callers on the handler: the bus idle, what the chip's key registers hold
Running(callers, keys, log, wrap) ==
  [calls |-> callers, keys |-> keys, cur |-> <<>>, rclk |-> 0, log |-> log,
   wrap |-> wrap, own |-> <<>>, owners |-> <<>>, at |-> 1, preempted |-> {}]

\* slip: a caller waits while the other caller's bracket is open
Runnable_Locked(c) ==
  /\ run.calls[c].todo # <<>>
  /\ line.stb = 0 => run.at = c

\* the code tests nothing before it executes its next statement: a call in
\* progress can always go on
Runnable(c) == run.calls[c].todo # <<>>

(***************************************************************************)
(* One caller, one call, one statement per step.  Every public function    *)
(* is called, with the largest arguments its parameters can hold: Count =  *)
(* 255 over an array of 255 bytes, StartAddr = 255, and with none (Count   *)
(* = 0).  The call runs on the calling thread and every platform call      *)
(* returns, so a step that can be taken is taken (WF).                     *)
(***************************************************************************)
StepCalls ==
  LET Ramp == [k \in 1..255 |-> k]
  IN
  { <<"Init", COM_CATHODE>>, <<"Init", COM_ANODE>>, <<"DeInit">>,
    <<"ConfigDisplay", 255, 255>>, <<"ScanKeys">>,
    <<"SetSingleDigit", 255, 255>>, <<"SetSingleDigit", 91, 3>>,
    <<"SetSingleDigit_HEX", 255, 255>>, <<"SetSingleDigit_CHAR", 255, 255>>,
    <<"SetMultipleDigit_HEX", Arg(Ramp), 255, 255>>,
    <<"SetMultipleDigit_CHAR", Arg(Ramp), 255, 255>> }
    \cup { <<"SetMultipleDigit", Arg(Ramp), a[1], a[2]>> :
             a \in { <<0, 2>>, <<255, 0>>, <<255, 255>> } }

\* the display type, the platform and the shifter of the build: the build
\* of TM1629_config.h with either display type, and a build with both back
\* ends on a handler that selects the SPI stub
InitStep ==
  /\ inited = TRUE
  /\ DisplayRegister = [i \in 1..16 |-> 0]
  /\ line = IdleLine
  /\ trace = <<>>
  /\ brackets = <<>>
  /\ lastOp = NoOp
  /\ prevRegister = DisplayRegister
  /\ ret = TM1629_OK
  /\ Keys = Zero32
  /\ nops = 0
  /\ Input = 0
  /\ \E call \in StepCalls,
        b \in { [Type |-> COM_CATHODE, P |-> GoodPlatform, wrap |-> FALSE],
                [Type |-> COM_ANODE, P |-> GoodPlatform, wrap |-> FALSE],
                [Type |-> COM_ANODE, P |-> GoodPlatform, wrap |-> TRUE],
                [Type |-> COM_CATHODE,
                 P |-> [GoodPlatform EXCEPT !.SupportSPI = TRUE,
                                            !.Communication = "SPI"],
                 wrap |-> FALSE] } :
       /\ DisplayType = b.Type
       /\ Platform = b.P
       /\ run = Running(<<Caller(call)>>, <<18, 132, 33, 72>>, FALSE, b.wrap)

Step == Runnable(1) /\ Put(Exec(Machine, 1), 1, {})

SpecStep == InitStep /\ [][Step]_vars /\ WF_vars(Step)

(***************************************************************************)
(* Two callers on one handler.  A caller runs from one of these points to  *)
(* the next in one step: a change of STB, the byte loop of a transfer      *)
(* before each byte, the digit loop of the common-anode branch before each *)
(* digit.  There it can be preempted by the other caller; each caller is   *)
(* preempted at most once.                                                 *)
(***************************************************************************)
RECURSIVE Slice(_, _)
Slice(S, c) ==
  LET YieldAt == {"STB", "WriteBytesGPIO", "ReadBytesGPIO", "Scatter"}
      S1 == Exec(S, c)
      todo == S1.calls[c].todo
  IN  IF Settled(S1.L) /\ todo # <<>> /\ Head(todo)[1] \notin YieldAt
      THEN Slice(S1, c)
      ELSE S1

\* the calls of the two callers: a configuration and a digit on a
\* common-cathode display, two digits on a common-anode display
InitRace ==
  /\ inited = TRUE
  /\ DisplayType \in {COM_CATHODE, COM_ANODE}
  /\ DisplayRegister = [i \in 1..16 |-> 0]
  /\ line = IdleLine
  /\ trace = <<>>
  /\ brackets = <<>>
  /\ lastOp = NoOp
  /\ prevRegister = DisplayRegister
  /\ ret = TM1629_OK
  /\ Keys = Zero32
  /\ nops = 0
  /\ Input = 0
  /\ Platform = GoodPlatform
  /\ run = Running(IF DisplayType = COM_CATHODE
                    THEN << Caller(<<"ConfigDisplay", 7, 1>>),
                            Caller(<<"SetSingleDigit", 91, 3>>) >>
                    ELSE << Caller(<<"SetSingleDigit", 91, 3>>),
                            Caller(<<"SetSingleDigit", 6, 12>>) >>,
                    NoKeys, TRUE, FALSE)

\* caller c runs a slice when the scheduler lets it: it is running already,
\* or the caller that is has returned, or that one has not been preempted
\* before
Race(c) ==
  /\ \/ run.at = c
     \/ run.calls[run.at].todo = <<>>
     \/ run.at \notin run.preempted
  /\ Runnable(c)
  /\ Put(Slice(Machine, c), c,
         IF run.at # c /\ run.calls[run.at].todo # <<>> THEN {run.at} ELSE {})

NextRace == \E c \in {1, 2} : Race(c)

SpecRace == InitRace /\ [][NextRace]_vars

(***************************************************************************)
(* Properties.  What an operation did is read from what it left behind:    *)
(* brackets (the bits moved while STB was low, one sequence per bracket),  *)
(* trace (every pin event), DisplayRegister against prevRegister, Keys.    *)
(***************************************************************************)
\* the k-th byte of a bracket, its bits taken least significant first
ByteAt(b, k) ==
  LET v(i) == b[8 * (k - 1) + i + 1][2]
  IN  v(0) + 2 * v(1) + 4 * v(2) + 8 * v(3)
        + 16 * v(4) + 32 * v(5) + 64 * v(6) + 128 * v(7)

\* the bracket b is exactly the bytes written, in order, and nothing is read
Sends(b, bytes) ==
  /\ Len(b) = 8 * Len(bytes)
  /\ \A i \in 1..Len(b) : b[i][1] = "w"
  /\ \A k \in 1..Len(bytes) : ByteAt(b, k) = bytes[k]

\* the writes of the STB line, in order
StbWrites == SelectSeq(trace, LAMBDA e : e[1] = "STB")

Low == <<"STB", 0>>

High == <<"STB", 1>>

ZeroImage == [i \in 1..16 |-> 0]

BankOf(d) == IF d < 8 THEN 0 ELSE 1

\* the segment byte of digit d gathered back from a shadow image
Column(R, d) ==
  LET v(b) == Bit(R[2 * b + BankOf(d) + 1], d % 8)
  IN  v(0) + 2 * v(1) + 4 * v(2) + 8 * v(3)
        + 16 * v(4) + 32 * v(5) + 64 * v(6) + 128 * v(7)

DisplayOps ==
  {"SetSingleDigit", "SetMultipleDigit", "SetSingleDigit_HEX",
   "SetMultipleDigit_HEX", "SetSingleDigit_CHAR", "SetMultipleDigit_CHAR"}

\* C1: in common-cathode mode SetMultipleDigit(data, StartAddr, Count) with
\* StartAddr in 0..15 makes exactly two STB brackets: the first carries only
\* the byte 0x40, the second the byte 0xC0|StartAddr and then exactly
\* data[0..Count-1], unchanged and in order; the shadow image is not touched.
C1_CathodeTwoBrackets ==
  (DisplayType = COM_CATHODE /\ lastOp.op = "SetMultipleDigit"
     /\ lastOp.pos \in 0..15) =>
    /\ Len(brackets) = 2
    /\ StbWrites = <<Low, High, Low, High>>
    /\ Sends(brackets[1], <<64>>)
    /\ Sends(brackets[2],
             <<192 + lastOp.pos>> \o SubSeq(lastOp.data, 1, lastOp.cnt))
    /\ DisplayRegister = prevRegister

C1_Witness ==
  /\ DisplayType = COM_CATHODE
  /\ lastOp = [op |-> "SetMultipleDigit",
               data |-> <<63, 6, 91, 79, 102, 109, 125, 7>>,
               pos |-> 0, cnt |-> 4]
  /\ Len(brackets) = 2
  /\ Sends(brackets[1], <<64>>)
  /\ Sends(brackets[2], <<192, 63, 6, 91, 79>>)

\* C2: in common-anode mode writing the segment byte v to digit d (0..15)
\* makes bit (d mod 8) of DisplayRegister[2*b + (0 if d<8 else 1)] equal to
\* bit b of v, for every b in 0..7; from an all-zero image 0xFF at digit 0
\* sets bit 0 of exactly the even bytes, 0xFF at digit 8 bit 0 of exactly
\* the odd bytes.
C2_AnodeScatter ==
  (DisplayType = COM_ANODE /\ lastOp.op \in {"SetSingleDigit", "SetMultipleDigit"}) =>
    /\ \A j \in 0..(lastOp.cnt - 1) :
         LET d == lastOp.pos + j
         IN  d \in 0..15 =>
               \A b \in 0..7 :
                 Bit(DisplayRegister[2 * b + BankOf(d) + 1], d % 8)
                   = Bit(lastOp.data[j + 1], b)
    /\ (lastOp.op = "SetSingleDigit" /\ prevRegister = ZeroImage
          /\ lastOp.data = <<255>> /\ lastOp.pos \in {0, 8}) =>
         \A i \in 0..15 :
           DisplayRegister[i + 1] = IF i % 2 = BankOf(lastOp.pos) THEN 1 ELSE 0

C2_Witness ==
  /\ DisplayType = COM_ANODE
  /\ prevRegister = ZeroImage
  /\ lastOp = [op |-> "SetSingleDigit", data |-> <<255>>, pos |-> 8, cnt |-> 1]
  /\ DisplayRegister = <<0, 1, 0, 1, 0, 1, 0, 1, 0, 1, 0, 1, 0, 1, 0, 1>>

\* C3: in common-anode mode every digit write, whatever StartAddr and Count,
\* is one display write: the byte 0x40 in a bracket of its own, then one
\* bracket with the byte 0xC0 (address 0) and all 16 bytes of the shadow
\* image in index order; never fewer bytes, never another address.
C3_AnodeFullPush ==
  (DisplayType = COM_ANODE /\ lastOp.op \in DisplayOps) =>
    /\ Len(brackets) = 2
    /\ StbWrites = <<Low, High, Low, High>>
    /\ Sends(brackets[1], <<64>>)
    /\ Len(brackets[2]) = 8 * 17
    /\ Sends(brackets[2], <<192>> \o DisplayRegister)

C3_Witness ==
  /\ DisplayType = COM_ANODE
  /\ lastOp.op = "SetMultipleDigit" /\ lastOp.pos = 13 /\ lastOp.cnt = 3
  /\ DisplayRegister # prevRegister
  /\ Sends(brackets[2], <<192>> \o DisplayRegister)

\* C4: a common-anode write of the digits StartAddr..StartAddr+Count-1, all
\* within 0..15, changes no shadow bit of a digit that was not written: bit
\* n of byte i belongs to digit n + 8*(i mod 2) and keeps its value unless
\* that digit is one of those written.
C4_AnodeFrame ==
  (DisplayType = COM_ANODE /\ lastOp.op \in DisplayOps
     /\ lastOp.pos >= 0 /\ lastOp.pos + lastOp.cnt - 1 <= 15) =>
    \A i \in 0..15, n \in 0..7 :
      (n + 8 * (i % 2)) \notin lastOp.pos..(lastOp.pos + lastOp.cnt - 1) =>
        Bit(DisplayRegister[i + 1], n) = Bit(prevRegister[i + 1], n)

C4_Witness ==
  /\ DisplayType = COM_ANODE
  /\ lastOp.op = "SetMultipleDigit" /\ lastOp.pos = 6 /\ lastOp.cnt = 4
  /\ prevRegister # ZeroImage
  /\ DisplayRegister # prevRegister
  /\ \E i \in 0..15 : DisplayRegister[i + 1] \div 4 # 0

\* how many pin events of the operation equal e
CountOf(e) == Cardinality({i \in 1..Len(trace) : trace[i] = e})

\* the bits the host sampled, in order
Samples == SelectSeq(trace, LAMBDA e : e[1] = "RD")

\* C5: ScanKeys makes exactly one STB bracket; inside it the byte 0x42 is
\* written and then exactly 4 bytes (32 clock pulses) are read; STB goes low
\* before anything else happens and high only after the last bit is sampled.
C5_ScanOneBracket ==
  lastOp.op = "ScanKeys" =>
    /\ Len(brackets) = 1
    /\ StbWrites = <<Low, High>>
    /\ trace[1] = Low
    /\ trace[Len(trace)] = High
    /\ Len(brackets[1]) = 8 + 32
    /\ Sends(SubSeq(brackets[1], 1, 8), <<66>>)
    /\ \A i \in 9..40 : brackets[1][i][1] = "r"
    /\ \A k \in 1..4 : ByteAt(brackets[1], k + 1) = lastOp.data[k]
    /\ Len(Samples) = 32
    /\ CountOf(<<"CLK", 1>>) = 8 + 32

C5_Witness ==
  /\ lastOp.op = "ScanKeys"
  /\ lastOp.data = <<18, 132, 33, 72>>
  /\ Len(brackets) = 1
  /\ Len(brackets[1]) = 40
  /\ ByteAt(brackets[1], 1) = 66
  /\ ByteAt(brackets[1], 5) = 72

\* the raw register bit that lands in bit n of the result: the groups of
\* eight are filled from the top one down as the walking bit goes from the
\* lowest up, register 3 first and its high-nibble bit first within a group
RawBit(R, n) ==
  LET g == n \div 8
      m == n % 8
  IN  Bit(R[(m \div 2) + 1], (3 - g) + 4 * (m % 2))

KeysSet == {n \in 0..31 : Keys[n] = 1}

RawSet(R) == {jb \in (1..4) \X (0..7) : Bit(R[jb[1]], jb[2]) = 1}

C8_ConfigByte ==
  lastOp.op = "ConfigDisplay" =>
    LET Brightness == lastOp.data[1]
        DisplayState == lastOp.data[2]
        Expected == 128 + (Brightness % 8) + (IF DisplayState # 0 THEN 8 ELSE 0)
    IN  /\ Len(brackets) = 1
        /\ StbWrites = <<Low, High>>
        /\ Sends(brackets[1], <<Expected>>)
        /\ ByteAt(brackets[1], 1) \in 128..143
        /\ (Brightness = 7 /\ DisplayState = 1) => Sends(brackets[1], <<143>>)
        /\ DisplayRegister = prevRegister

C8_Witness ==
  /\ lastOp.op = "ConfigDisplay"
  /\ lastOp.data = <<7, 1>>
  /\ Input = 7
  /\ Len(brackets) = 1
  /\ Sends(brackets[1], <<143>>)

\* the first sixteen segment patterns as the property lists them
HexPatterns ==
  <<63, 6, 91, 79, 102, 109, 125, 7, 127, 111, 119, 124, 57, 94, 121, 113>>

\* the segment byte a one-digit write at digit 0 put on the display: the
\* byte after the address command, or in common-anode mode the column of
\* digit 0 in the image that was pushed
Shown ==
  IF DisplayType = COM_CATHODE THEN ByteAt(brackets[2], 2)
  ELSE Column(DisplayRegister, 0)

\* C9: for every digit value n in 0..15 and decimal-point flag p in
\* {0, 0x80} the hex encoder turns n|p into HexTo7Seg[n] | p, the table
\* being 0x3F,0x06,0x5B,0x4F,0x66,0x6D,0x7D,0x07,0x7F,0x6F,0x77,0x7C,0x39,
\* 0x5E,0x79,0x71; in common-cathode mode SetSingleDigit_HEX(8|0x80, 0)
\* sends 0x40 in one bracket and 0xC0, 0xFF in the next.
C9_HexEncode ==
  (lastOp.op \in {"SetSingleDigit_HEX", "SetMultipleDigit_HEX"}
     /\ lastOp.pos = 0 /\ lastOp.cnt = 1 /\ (lastOp.data[1] % 128) <= 15) =>
    LET n == lastOp.data[1] % 128
        p == lastOp.data[1] - n
    IN  /\ Len(brackets) = 2
        /\ Sends(brackets[1], <<64>>)
        /\ Shown = HexPatterns[n + 1] + p
        /\ DisplayType = COM_CATHODE =>
             Sends(brackets[2], <<192, HexPatterns[n + 1] + p>>)
        /\ (DisplayType = COM_CATHODE /\ lastOp.data[1] = 136) =>
             Sends(brackets[2], <<192, 255>>)

C9_Witness ==
  /\ DisplayType = COM_CATHODE
  /\ lastOp = [op |-> "SetSingleDigit_HEX", data |-> <<136>>, pos |-> 0, cnt |-> 1]
  /\ Len(brackets) = 2
  /\ Sends(brackets[1], <<64>>)
  /\ Sends(brackets[2], <<192, 255>>)

\* A b C d E F g G h H i I j l L n N o O P q r S t u U y _ - ~
Alphabet ==
  <<65, 98, 67, 100, 69, 70, 103, 71, 104, 72, 105, 73, 106, 108, 76, 110, 78,
    111, 79, 80, 113, 114, 83, 116, 117, 85, 121, 95, 45, 126>>

\* the letters listed in one case only: A b C d E F j P q r S t y
OneCase == {65, 98, 67, 100, 69, 70, 106, 80, 113, 114, 83, 116, 121}

\* the same letter in the other case
OtherCase(c) == IF c >= 97 THEN c - 32 ELSE c + 32

\* C10: the character encoder turns each digit character '0'..'9' into
\* HexTo7Seg[c-'0'] and the k-th character (k = 0..29) of the alphabet
\* A,b,C,d,E,F,g,G,h,H,i,I,j,l,L,n,N,o,O,P,q,r,S,t,u,U,y,_,-,~ into
\* HexTo7Seg[10+k]; a letter listed in one case only encodes the same in the
\* other case; with the decimal-point flag 0x80 is OR'd in, so '8' with the
\* flag gives 0xFF.
C10_CharEncode ==
  (lastOp.op = "SetMultipleDigit_CHAR" /\ lastOp.pos = 0 /\ lastOp.cnt = 1) =>
    LET c == lastOp.data[1] % 128
        p == lastOp.data[1] - c
    IN  /\ c \in 48..57 => Shown = Or(HexTo7Seg[(c - 48) + 1], p)
        /\ \A k \in 0..29 :
             (c = Alphabet[k + 1]
                \/ (Alphabet[k + 1] \in OneCase /\ c = OtherCase(Alphabet[k + 1]))) =>
               Shown = Or(HexTo7Seg[10 + k + 1], p)
        /\ lastOp.data[1] = 184 => Shown = 255

C10_Witness ==
  /\ DisplayType = COM_CATHODE
  /\ lastOp = [op |-> "SetMultipleDigit_CHAR", data |-> <<184>>, pos |-> 0, cnt |-> 1]
  /\ Sends(brackets[2], <<192, 255>>)

\* C11 as stated: SetSingleDigit_CHAR(Char, DigitPos) puts on digit DigitPos
\* the pattern of the character Char, the byte SetMultipleDigit_CHAR writes
\* for the one-character string holding Char.
C11_Original ==
  (lastOp.op = "SetSingleDigit_CHAR" /\ lastOp.pos = 0) =>
    Shown = TM1629_StringTo7Seg(lastOp.data, 1)[1]

\* the characters that have a pattern: the digits, the alphabet and the
\* other case of its one-case letters
Supported(c) ==
  \/ c \in 48..57
  \/ \E k \in 1..30 :
       c = Alphabet[k] \/ (Alphabet[k] \in OneCase /\ c = OtherCase(Alphabet[k]))

\* the j-th segment byte (j from 1) a multi-digit write put on the display
ShownAt(j) ==
  IF DisplayType = COM_CATHODE THEN ByteAt(brackets[2], j + 1)
  ELSE Column(DisplayRegister, lastOp.pos + j - 1)

\* C12: a character without a pattern (such as '*') at any index of the
\* input of SetMultipleDigit_CHAR gives 0x00 at that index and does not end
\* the write: every other index is encoded as usual, all Count segment bytes
\* are sent and the call returns TM1629_OK.
C12_UnsupportedChar ==
  (lastOp.op = "SetMultipleDigit_CHAR" /\ lastOp.cnt <= 16
     /\ lastOp.pos + lastOp.cnt - 1 <= 15) =>
    /\ ret = 0
    /\ Len(brackets) = 2
    /\ DisplayType = COM_CATHODE => Len(brackets[2]) = 8 * (lastOp.cnt + 1)
    /\ \A j \in 1..lastOp.cnt :
         LET c == lastOp.data[j] % 128
             p == lastOp.data[j] - c
         IN  IF Supported(c)
             THEN ShownAt(j) # 0 /\ ShownAt(j) = StringTo7SegByte(c) + p
             ELSE ShownAt(j) = 0

C12_Witness ==
  /\ DisplayType = COM_CATHODE
  /\ lastOp = [op |-> "SetMultipleDigit_CHAR",
               data |-> <<56, 42, 98, 170, 45, 95, 121, 65>>,
               pos |-> 6, cnt |-> 4]
  /\ ret = 0
  /\ Sends(brackets[2], <<198, 127, 0, 124, 0>>)

\* C13 as stated: for every 8-bit input of the hex encoder and of the
\* character encoder, also one that has no pattern, bit 7 of the segment
\* byte is bit 7 of the input.
C13_Original ==
  (lastOp.op \in {"SetSingleDigit_HEX", "SetMultipleDigit_HEX", "SetMultipleDigit_CHAR"}
     /\ lastOp.pos = 0 /\ lastOp.cnt = 1) =>
    Bit(Shown, 7) = Bit(lastOp.data[1], 7)

\* the public operations that need a transfer
TransferOps ==
  DisplayOps \cup {"ConfigDisplay", "ScanKeys"}

\* the places of the trace where a primitive signalled an error
RefusedAt == {i \in 1..Len(trace) : Len(trace[i]) = 3}

\* C14 as stated: when a platform primitive signals an error during
\* ConfigDisplay, a display write of any variant or ScanKeys, the transfer
\* is given up, no clock pulse follows the error, and the call returns
\* TM1629_FAIL.
C14_Original ==
  (lastOp.op \in TransferOps /\ RefusedAt # {}) =>
    /\ ret = TM1629_FAIL
    /\ \A i \in RefusedAt :
         \A k \in (i + 1)..Len(trace) : trace[k][1] # "CLK"

\* the Init hook of the platform is absent or returns a non-negative status
InitHookPasses == Platform.Init = <<>> \/ Platform.Init[1] >= 0

\* the GPIO back end is the selected communication mode: the only mode of a
\* build without SPI support, the value of the Communication field otherwise
GPIOSelected == ~Platform.SupportSPI \/ Platform.Communication = "GPIO"

\* C15 as stated: TM1629_Init returns TM1629_OK exactly when the Init hook
\* is absent or returns a non-negative status, the GPIO back end is the
\* selected mode and all six primitives are supplied; in every other case
\* (hook error, a primitive missing, SPI or any other unsupported mode) it
\* returns TM1629_FAIL.
C15_Original ==
  lastOp.op = "Init" =>
    IF InitHookPasses /\ GPIOSelected /\ Primitives \subseteq Platform.Bound
    THEN ret = TM1629_OK
    ELSE ret = TM1629_FAIL

\* C16 as stated: TM1629_DeInit returns TM1629_OK when the DeInit hook is
\* absent or returns success (0), and TM1629_FAIL when the hook signals an
\* error (a negative value).
C16_Original ==
  lastOp.op = "DeInit" =>
    /\ (Platform.DeInit = <<>> \/ Platform.DeInit = <<0>>) => ret = TM1629_OK
    /\ (Platform.DeInit # <<>> /\ Platform.DeInit[1] < 0) => ret = TM1629_FAIL

\* the SPI back end is the selected communication mode
SPISelected == Platform.SupportSPI /\ Platform.Communication = "SPI"

\* C17 as stated: with the SPI back end selected every public operation
\* that needs a transfer returns TM1629_FAIL; none returns TM1629_OK after
\* moving nothing.
C17_Original ==
  (SPISelected /\ lastOp.op \in TransferOps) => ret = TM1629_FAIL

\* the segment bytes that follow the address command in the second bracket
PayloadBytes == (Len(brackets[2]) \div 8) - 1

\* C18 as stated: in common-cathode mode a display write stays within the
\* chip's registers 0..15 for every StartAddr and Count: the address field
\* of the address command it emits is in 0..15 and no more than
\* 16 - StartAddr segment bytes follow it (the request is rejected, which
\* emits nothing, or clamped).
C18_Original ==
  (DisplayType = COM_CATHODE /\ lastOp.op \in DisplayOps /\ Len(brackets) >= 2) =>
    /\ ByteAt(brackets[2], 1) - COMMAND_ADDRESS_SETTING \in 0..15
    /\ PayloadBytes <= 16 - lastOp.pos

MultiDigitOps == {"SetMultipleDigit", "SetMultipleDigit_HEX", "SetMultipleDigit_CHAR"}

\* C19 as stated: every multi-digit write caps the digit count at 16: for
\* any Count, SetMultipleDigit, SetMultipleDigit_HEX and
\* SetMultipleDigit_CHAR encode and send at most 16 digits (seen on the
\* wire in common-cathode mode, where each digit is one segment byte).
C19_Original ==
  (DisplayType = COM_CATHODE /\ lastOp.op \in MultiDigitOps /\ Len(brackets) >= 2) =>
    PayloadBytes <= 16

\* the places of the trace where STB is written, in order
StbAt ==
  SelectSeq([i \in 1..Len(trace) |-> i], LAMBDA i : trace[i][1] = "STB")

\* the writes of CLK and DIO and the reads of DIO
PinEvents == {"CLK", "DIO", "RD"}

\* the bracket brackets[b] holds one logical command: a data-setting or
\* display-control command alone, an address command with the segment
\* bytes written to that address (the one bracket after a data-setting
\* command), or a key-read command with the four bytes read back
OneCommand(b) ==
  LET B == brackets[b]
      c == ByteAt(B, 1)
  IN  /\ Len(B) >= 8
      /\ \A k \in 1..8 : B[k][1] = "w"
      /\ CASE c = 64 -> Len(B) = 8
            [] c = 66 -> Len(B) = 40 /\ \A k \in 9..40 : B[k][1] = "r"
            [] c \in 128..143 -> Len(B) = 8
            [] c \in 192..207 ->
                 /\ b > 1
                 /\ Sends(brackets[b - 1], <<64>>)
                 /\ Len(B) % 8 = 0
                 /\ \A k \in 1..Len(B) : B[k][1] = "w"
            [] OTHER -> FALSE

\* the brackets the last call added are those of its one or two commands
LastCommands ==
  LET n == Len(brackets)
  IN  /\ lastOp.op \in DisplayOps =>
           /\ n >= 2
           /\ Sends(brackets[n - 1], <<64>>)
           /\ ByteAt(brackets[n], 1) =
                 192 + (IF DisplayType = COM_CATHODE THEN lastOp.pos ELSE 0)
           /\ Len(brackets[n]) =
                 8 * (1 + (IF DisplayType = COM_CATHODE THEN lastOp.cnt ELSE 16))
      /\ lastOp.op = "ConfigDisplay" =>
           n >= 1 /\ Len(brackets[n]) = 8 /\ ByteAt(brackets[n], 1) \in 128..143
      /\ lastOp.op = "ScanKeys" =>
           n >= 1 /\ Len(brackets[n]) = 40 /\ ByteAt(brackets[n], 1) = 66

\* C20: in the pin-event trace of any sequence of public operations the STB
\* writes strictly alternate low, high, low, high, ...; every write of CLK
\* and DIO and every read of DIO happens while STB is low, inside a bracket;
\* and no bracket holds bytes of more than one logical command.
C20_BracketsWellFormed ==
  LET P == StbAt
  IN  /\ \A m \in 1..Len(P) : trace[P[m]][2] = (IF m % 2 = 1 THEN 0 ELSE 1)
      /\ Len(P) = 2 * Len(brackets)
      /\ \A k \in 1..Len(trace) :
           trace[k][1] \in PinEvents =>
             \E m \in 1..Len(brackets) : P[2 * m - 1] < k /\ k < P[2 * m]
      /\ \A b \in 1..Len(brackets) : OneCommand(b)
      /\ LastCommands

\* a display switched on, then two segment bytes that read as commands
\* written in common-cathode mode, then the keys scanned with registers
\* that read as commands
C20_Witness ==
  /\ DisplayType = COM_CATHODE
  /\ lastOp.op = "ScanKeys"
  /\ lastOp.data = <<64, 143, 192, 66>>
  /\ Len(StbAt) = 8
  /\ Sends(brackets[1], <<143>>)
  /\ Sends(brackets[2], <<64>>)
  /\ Sends(brackets[3], <<192, 66, 192>>)
  /\ ByteAt(brackets[4], 1) = 66
  /\ ByteAt(brackets[4], 4) = 192

\* the pin events of writing the first n bytes of Data: DIO to output, then
\* for each byte in order and each bit from the low end CLK low, delay 1,
\* DIO := bit, CLK high, delay 1
WriteEvents(Data, n) ==
  [k \in 1..(1 + 40 * n) |->
     IF k = 1 THEN <<"DIR", 1>>
     ELSE LET q == k - 2
              b == Bit(Data[(q \div 40) + 1], (q \div 5) % 8)
          IN  CASE q % 5 = 0 -> <<"CLK", 0>>
                [] q % 5 = 1 -> <<"DLY", 1>>
                [] q % 5 = 2 -> <<"DIO", b>>
                [] q % 5 = 3 -> <<"CLK", 1>>
                [] q % 5 = 4 -> <<"DLY", 1>>]

\* C21: a write of n bytes first switches DIO to output and then, byte by
\* byte and bit by bit from the low end, does CLK low, delay 1, DIO := bit,
\* CLK high, delay 1: there are exactly 8 * n rising clock edges, DIO only
\* changes while CLK is low, and the bits latched on the rising edges are
\* the bytes written.  Seen on the common-cathode SetMultipleDigit (writes
\* of 1, 1 and Count bytes) and on ConfigDisplay (one byte).
C21_WriteSequence ==
  /\ (DisplayType = COM_CATHODE /\ lastOp.op = "SetMultipleDigit") =>
       LET addr == <<U8(Or(COMMAND_ADDRESS_SETTING, lastOp.pos))>>
           n == lastOp.cnt
       IN  /\ trace = <<Low>> \o WriteEvents(<<64>>, 1) \o <<High, Low>>
                        \o WriteEvents(addr, 1) \o WriteEvents(lastOp.data, n)
                        \o <<High>>
           /\ Len(brackets[2]) = 8 * (1 + n)
           /\ Sends(brackets[2], addr \o SubSeq(lastOp.data, 1, n))
  /\ lastOp.op = "ConfigDisplay" =>
       /\ Len(brackets[1]) = 8
       /\ trace = <<Low>> \o WriteEvents(<<ByteAt(brackets[1], 1)>>, 1) \o <<High>>
  /\ lastOp.op \in DisplayOps \cup {"ConfigDisplay"} =>
       \A k \in 1..Len(trace) :
         trace[k][1] = "DIO" =>
           /\ trace[k - 2] = <<"CLK", 0>>
           /\ trace[k - 1][1] = "DLY"
           /\ trace[k + 1] = <<"CLK", 1>>

C21_Witness ==
  /\ DisplayType = COM_CATHODE
  /\ lastOp = [op |-> "SetMultipleDigit", data |-> <<63, 6, 91, 79, 102, 109, 125, 7>>,
               pos |-> 6, cnt |-> 4]
  /\ Len(trace) = 4 + 41 + 41 + 161
  /\ Sends(brackets[2], <<198, 63, 6, 91, 79>>)

\* the pin events of reading n bytes whose samples are S: DIO to input,
\* delay 5, then per byte eight times CLK low, delay 1, CLK high, sample,
\* delay 1, and delay 2 after the byte
ReadEvents(S, n) ==
  [k \in 1..(2 + 41 * n) |->
     IF k = 1 THEN <<"DIR", 0>>
     ELSE IF k = 2 THEN <<"DLY", 5>>
     ELSE LET q == (k - 3) % 41
              j == (k - 3) \div 41
          IN  IF q = 40 THEN <<"DLY", 2>>
              ELSE CASE q % 5 = 0 -> <<"CLK", 0>>
                     [] q % 5 = 1 -> <<"DLY", 1>>
                     [] q % 5 = 2 -> <<"CLK", 1>>
                     [] q % 5 = 3 -> <<"RD", S[8 * j + (q \div 5) + 1]>>
                     [] q % 5 = 4 -> <<"DLY", 1>>]

\* the byte j (from 1) that eight samples make, the first sample lowest
SampledByte(j) ==
  LET v(i) == Samples[8 * (j - 1) + i + 1][2]
  IN  v(0) + 2 * v(1) + 4 * v(2) + 8 * v(3)
        + 16 * v(4) + 32 * v(5) + 64 * v(6) + 128 * v(7)

\* C22: a read of n bytes switches DIO to input, waits 5, then for each byte
\* and each bit position i = 0..7 does CLK low, delay 1, CLK high, sample
\* DIO, delay 1, and waits 2 after each byte; exactly 8 * n samples are
\* taken, each right after a rising clock edge, and byte j is the sum of
\* sample(j, i) * 2^i.  Seen on ScanKeys (n = 4): the bytes made of the
\* samples are the chip's registers and are what the decoder is given.
C22_ReadSequence ==
  lastOp.op = "ScanKeys" =>
    LET S == [k \in 1..Len(Samples) |-> Samples[k][2]]
        B == [j \in 1..4 |-> SampledByte(j)]
    IN  /\ Len(S) = 32
        /\ \A k \in 1..32 : S[k] \in {0, 1}
        /\ trace = <<Low>> \o WriteEvents(<<66>>, 1) \o ReadEvents(S, 4) \o <<High>>
        /\ \A k \in 1..Len(trace) :
             trace[k][1] = "RD" => trace[k - 1] = <<"CLK", 1>> /\ trace[k - 3] = <<"CLK", 0>>
        /\ B = lastOp.data
        /\ Keys = ScanDecode(Zero32, B, 1, 0)

C22_Witness ==
  /\ lastOp.op = "ScanKeys"
  /\ lastOp.data = <<18, 132, 33, 72>>
  /\ Len(trace) = 2 + 41 + 2 + 41 * 4
  /\ SampledByte(1) = 18
  /\ SampledByte(4) = 72

\* the first byte clocked out in the bracket brackets[b]
CommandOf(b) == ByteAt(brackets[b], 1)

\* C23: in every trace of public operations with positions in 0..15 the
\* first byte clocked out in each bracket is 0x40 (display-write data
\* command), 0x42 (key-read data command), one of 0x80..0x8F (display
\* control) or one of 0xC0..0xCF (address); a data command never has the
\* fixed-address bit 0x04 or the test-mode bit 0x08 set; and every address
\* bracket comes right after a bracket that holds only 0x40.
C23_CommandBytes ==
  \A b \in 1..Len(brackets) :
    /\ Len(brackets[b]) >= 8
    /\ \A k \in 1..8 : brackets[b][k][1] = "w"
    /\ CommandOf(b) \in {64, 66} \cup (128..143) \cup (192..207)
    /\ CommandOf(b) \in 64..127 =>
         Bit(CommandOf(b), 2) = 0 /\ Bit(CommandOf(b), 3) = 0
    /\ CommandOf(b) \in 192..207 =>
         b > 1 /\ Len(brackets[b - 1]) = 8 /\ CommandOf(b - 1) = 64

\* the display switched on, the keys scanned, then two characters written
\* from position 6 in common-cathode mode
C23_Witness ==
  /\ DisplayType = COM_CATHODE
  /\ lastOp.op = "SetMultipleDigit_CHAR"
  /\ Len(brackets) = 4
  /\ CommandOf(1) = 143
  /\ CommandOf(2) = 66
  /\ CommandOf(3) = 64
  /\ CommandOf(4) = 198

\* the value 10..15 a hex letter denotes, -1 for any other character
HexLetterValue(x) ==
  IF x \in 65..70 THEN x - 55
  ELSE IF x \in 97..102 THEN x - 87
  ELSE -1

\* C24: the hex encoder takes only the values 0..15 and the letters A-F:
\* each of 'A'..'F' and 'a'..'f' gives the pattern of the value 10..15 it
\* denotes, and every other 7-bit value from 16 to 127 (the ASCII digits
\* '0'..'9' and letters such as 'g' among them) gives the blank glyph.
C24_HexLettersOnly ==
  (lastOp.op \in {"SetSingleDigit_HEX", "SetMultipleDigit_HEX"}
     /\ lastOp.pos = 0 /\ lastOp.cnt = 1 /\ lastOp.data[1] \in 16..127) =>
    IF HexLetterValue(lastOp.data[1]) >= 0
    THEN Shown = HexPatterns[HexLetterValue(lastOp.data[1]) + 1]
    ELSE Shown = 0

\* the ASCII digit '9' shown as a blank
C24_Witness ==
  /\ DisplayType = COM_CATHODE
  /\ lastOp = [op |-> "SetSingleDigit_HEX", data |-> <<57>>, pos |-> 0, cnt |-> 1]
  /\ Sends(brackets[2], <<192, 0>>)

\* every call in progress has returned
Returned == \A c \in DOMAIN run.calls : run.calls[c].todo = <<>>

\* C25: every public function, called with any argument values (Count = 255
\* and StartAddr = 255 among them), returns after finitely many statements
\* and platform calls, provided every platform call returns
C25_Terminates == <>Returned

\* a common-anode TM1629_SetMultipleDigit with StartAddr = 255 and Count =
\* 255 has returned
C25_Witness ==
  /\ Returned
  /\ DisplayType = COM_ANODE
  /\ run.calls[1].op[1] = "SetMultipleDigit"
  /\ run.calls[1].op[3] = 255
  /\ run.calls[1].op[4] = 255

\* the caller that clocked the n-th byte of closed bracket b, 0 when its
\* bits come from both
ByteOwner(b, n) ==
  IF \A i \in 1..8 : run.owners[b][8 * (n - 1) + i] = 1 THEN 1
  ELSE IF \A i \in 1..8 : run.owners[b][8 * (n - 1) + i] = 2 THEN 2
  ELSE 0

\* the callers that clocked a bit of closed bracket b
OwnersOf(b) == { run.owners[b][k] : k \in 1..Len(run.owners[b]) }

\* the shadow images a common-anode display is sent when the two calls run
\* one after the other, in either order
SerialImages ==
  LET Z == [i \in 1..16 |-> 0]
      A == run.calls[1].op
      B == run.calls[2].op
      ImA == ScatterLoop(Z, <<A[2]>>, A[3], 1, 0)
      ImB == ScatterLoop(Z, <<B[2]>>, B[3], 1, 0)
  IN  { ImA, ImB, ScatterLoop(ImA, <<B[2]>>, B[3], 1, 0),
        ScatterLoop(ImB, <<A[2]>>, A[3], 1, 0) }

\* C26: the handler has no lock.  A call in progress executes its next
\* statement whatever the other caller is in the middle of, an open bracket
\* included; and as long as no caller has been preempted, every bracket
\* carries the bits of one caller only
C26_NoSynchronization ==
  /\ \A c \in {1, 2} : run.calls[c].todo # <<>> => Runnable(c)
  /\ run.preempted = {} =>
       \A b \in 1..Len(brackets) : Cardinality(OwnersOf(b)) = 1

\* two common-anode writes have returned; one STB bracket carries the bits
\* of both callers, 18 bytes where a call alone sends 1 or 17: the second
\* caller's data command in the middle of the first caller's address
\* command and 16 bytes, and these 16 bytes are the image of neither serial
\* order
C26_Witness ==
  /\ DisplayType = COM_ANODE
  /\ Returned
  /\ \E b \in 1..Len(brackets) :
       /\ OwnersOf(b) = {1, 2}
       /\ Len(brackets[b]) = 8 * 18
       /\ \E k \in 2..17 :
            /\ \A n \in 1..18 : ByteOwner(b, n) = IF n = k THEN 2 ELSE 1
            /\ ByteAt(brackets[b], k) = COMMAND_DATA_READING_WRITING_SETTING
            /\ ByteAt(brackets[b], 1) = COMMAND_ADDRESS_SETTING
            /\ [n \in 1..16 |->
                  ByteAt(brackets[b], IF n + 1 < k THEN n + 1 ELSE n + 2)]
                 \notin SerialImages

\* where ScanKeys puts bit `bit` of raw register Rj: the walking bit of
\* group g selects bits g and g + 4
Landing(j, bit) == 8 * (3 - (bit % 4)) + 2 * j + (bit \div 4)

\* C27: ScanKeys emits group K1..K4, in a group registers R3 down to R0, per
\* register bit Kn << 4 before bit Kn, each shifted in at the low end: bit g
\* of Rj lands at result bit 8*(3-g) + 2*j and bit g + 4 of Rj at result bit
\* 8*(3-g) + 2*j + 1, and the 32 register bits go to 32 different result bits
C27_EmissionOrder ==
  lastOp.op = "ScanKeys" =>
    /\ \A g \in 0..3, j \in 0..3 :
         /\ Keys[8 * (3 - g) + 2 * j] = Bit(lastOp.data[j + 1], g)
         /\ Keys[8 * (3 - g) + 2 * j + 1] = Bit(lastOp.data[j + 1], g + 4)
    /\ { Landing(j, bit) : j \in 0..3, bit \in 0..7 } = 0..31
    /\ \A j \in 0..3, bit \in 0..7 :
         lastOp.data = OneHot(j + 1, bit) => KeysSet = { Landing(j, bit) }

\* bit 6 of R1 alone is set: group 2, the bit Kn << 4, result bit 11
C27_Witness ==
  /\ lastOp.op = "ScanKeys"
  /\ lastOp.data = <<0, 64, 0, 0>>
  /\ KeysSet = {11}

\* C28: after any sequence of common-anode SetSingleDigit and
\* SetMultipleDigit calls with every position in 0..15, each digit position
\* d written at least once reads back from the shadow image, as bit d mod 8
\* of the bytes 2*b + (0 if d < 8 else 1), b = 0..7, the segment byte
\* written to it last
C28_ShadowRoundTrip ==
  \A d \in 0..15 : Input[d] # -1 => Column(DisplayRegister, d) = Input[d]

\* three calls: digits 7..9 written, digit 3 written and then overwritten
\* with 0; the image started from bytes that were not zero
C28_Witness ==
  /\ nops = 3
  /\ lastOp = [op |-> "SetSingleDigit", data |-> <<0>>, pos |-> 3, cnt |-> 1]
  /\ Input[3] = 0
  /\ Input[7] = 63
  /\ Input[8] = 6
  /\ Input[9] = 91
  /\ Input[12] = -1
  /\ Column(DisplayRegister, 12) # 0

\* the chip's 16 display registers after the bracket b, regs before it: a
\* bracket that opens with an address command 0xC0|a stores the bytes that
\* follow at a, a+1, ... (modulo 16); any other bracket stores nothing
ChipAfter(regs, b) ==
  IF Len(b) >= 8 /\ ByteAt(b, 1) \div 16 = 12
  THEN LET a == ByteAt(b, 1) % 16
           n == (Len(b) \div 8) - 1
       IN  [r \in 1..16 |->
              LET ks == { k \in 1..n : (a + k - 1) % 16 = r - 1 }
              IN  IF ks = {} THEN regs[r]
                  ELSE ByteAt(b, 1 + CHOOSE k \in ks : \A m \in ks : m <= k)]
  ELSE regs

\* the chip after the first n brackets on the wire; -1: not written since
\* power-up
RECURSIVE Chip(_)
Chip(n) ==
  IF n = 0 THEN [r \in 1..16 |-> -1]
  ELSE ChipAfter(Chip(n - 1), brackets[n])

\* C29: the chip taken as 16 registers that store the bytes following an
\* address command at auto-incremented addresses: after every completed
\* common-anode display write, whatever was called before it, the chip's 16
\* registers equal the 16 bytes of the shadow image
C29_ChipAgreement ==
  (DisplayType = COM_ANODE /\ lastOp.op \in DisplayOps) =>
    Chip(Len(brackets)) = DisplayRegister

\* the second of two common-anode writes; after the first the chip held a
\* different image
C29_Witness ==
  /\ DisplayType = COM_ANODE
  /\ lastOp.op = "SetSingleDigit" /\ lastOp.pos = 15
  /\ Len(brackets) = 4
  /\ Chip(2) = prevRegister
  /\ Chip(2) # DisplayRegister
  /\ Chip(4) = DisplayRegister
  /\ \E r \in 1..16 : DisplayRegister[r] \notin {0, 64}

\* the 16 image bytes a common-anode write pushes after the address command
Pushed == [i \in 1..16 |-> ByteAt(brackets[2], i + 1)]

\* C30 as stated: TM1629_Init leaves the shadow image all zero, so that in
\* common-anode mode the first single-digit write after it pushes zeros for
\* every digit position that has not been written.
C30_Original ==
  /\ lastOp.op = "Init" => DisplayRegister = ZeroImage
  /\ (DisplayType = COM_ANODE /\ lastOp.op = "SetSingleDigit" /\ nops = 1
        /\ lastOp.pos \in 0..15) =>
       \A d \in 0..15 \ {lastOp.pos} : Column(Pushed, d) = 0

\* what happens instead: the handler's memory held other bytes before
\* TM1629_Init, and the first common-anode write of digit 3 pushes them for
\* the positions never written
C30_StalePush ==
  /\ DisplayType = COM_ANODE
  /\ lastOp = [op |-> "SetSingleDigit", data |-> <<91>>, pos |-> 3, cnt |-> 1]
  /\ nops = 1
  /\ Pushed = DisplayRegister
  /\ Column(Pushed, 3) = 91
  /\ \A d \in 0..15 \ {3} : Column(Pushed, d) = Column(prevRegister, d)
  /\ \E d \in 0..15 \ {3} : Column(Pushed, d) # 0

\* TM1629_Init has just returned TM1629_FAIL although its hook is absent or
\* passed: a primitive is missing or the communication mode is not supported
InitRefused ==
  /\ lastOp.op # "Init"
  /\ lastOp'.op = "Init"
  /\ ret' = TM1629_FAIL
  /\ InitHookPasses

\* C31 as stated: TM1629_Init has no partial-success outcome: whenever it
\* returns TM1629_FAIL because a required primitive is missing or the
\* communication mode is unsupported, the platform Init hook has not been
\* invoked and the handler's DisplayType is unchanged.
C31_Original ==
  [][InitRefused => (lastOp'.data = <<>> /\ DisplayType' = DisplayType)]_vars

\* what happens instead: the hook has run and returned 0, DisplayType has
\* been set to common anode, and then a missing primitive fails the call
C31_PartialInit ==
  /\ lastOp.op = "Init"
  /\ ret = TM1629_FAIL
  /\ "ReadDIO" \notin Platform.Bound
  /\ lastOp.data = <<0>>
  /\ DisplayType = COM_ANODE

\* the values written to the pin, in order
WrittenTo(pin) == SelectSeq(trace, LAMBDA e : e[1] = pin)

\* C32: when ConfigDisplay, a display write of any variant or ScanKeys has
\* returned, the last value written to STB is high and the last value
\* written to CLK is high, and the two lines rest high between any two
\* consecutive operations of a sequence
C32_IdleLine ==
  LET stb == WrittenTo("STB")
      clk == WrittenTo("CLK")
  IN  /\ lastOp.op \in TransferOps => (stb # <<>> /\ clk # <<>>)
      /\ stb # <<>> => stb[Len(stb)] = High
      /\ clk # <<>> => clk[Len(clk)] = <<"CLK", 1>>
      /\ line.stb = 1
      /\ line.clk = 1

\* ScanKeys has returned after a display write and before the next call:
\* the last pin events are the read of the last key bit and the closing
\* rise of STB
C32_Witness ==
  /\ lastOp.op = "ScanKeys"
  /\ Len(brackets) = 3
  /\ Len(WrittenTo("STB")) = 6
  /\ trace[Len(trace)] = High
  /\ WrittenTo("CLK")[Len(WrittenTo("CLK"))] = <<"CLK", 1>>
  /\ line.stb = 1 /\ line.clk = 1 /\ line.dir = 0

\* the places of the trace where DirDIO is called
DirAt == { i \in 1..Len(trace) : trace[i][1] = "DIR" }

\* the direction the most recent DirDIO call before place i selected; -1
\* when there was none
DirBefore(dirs, i) ==
  LET prior == { k \in dirs : k < i }
  IN  IF prior = {} THEN -1
      ELSE trace[CHOOSE k \in prior : \A m \in prior : m <= k][2]

\* C33: in any sequence of public operations WriteDIO is called only while
\* the most recent DirDIO call selected output and ReadDIO only while it
\* selected input; a display write or ConfigDisplay after ScanKeys sets the
\* data line to output before it drives it
C33_DirectionSafety ==
  LET dirs == DirAt
  IN  \A i \in 1..Len(trace) :
        /\ trace[i][1] = "DIO" => DirBefore(dirs, i) = 1
        /\ trace[i][1] = "RD" => DirBefore(dirs, i) = 0

\* a display write after ScanKeys: the data line was an input, is set to
\* output by the first DirDIO of the write and is driven only after that
C33_Witness ==
  /\ lastOp.op = "SetSingleDigit"
  /\ Len(brackets) = 3
  /\ Len(brackets[1]) = 40
  /\ \E i \in DirAt :
       /\ trace[i] = <<"DIR", 1>>
       /\ DirBefore(DirAt, i) = 0
       /\ trace[i - 1] = Low
       /\ \E r \in 1..(i - 1) :
            /\ trace[r][1] = "RD"
            /\ \A k \in r..i : trace[k][1] # "DIO"
       /\ \E k \in (i + 1)..Len(trace) : trace[k][1] = "DIO"
  /\ line.dir = 1

\* the step leaves what the display write res = [R, L, ret] leaves: the
\* pin events, the lines, the bits latched, the shadow image, the status
Leaves(res) ==
  /\ trace' = res.L.ev
  /\ line' = LineOf(res.L)
  /\ brackets' = res.L.br
  /\ DisplayRegister' = res.R
  /\ ret' = res.ret

\* C34: in both display polarities, for every v and every p in 0..15,
\* SetSingleDigit(v, p) leaves the pin-event trace, the shadow image and
\* the return status that SetMultipleDigit([v], p, 1) leaves from the same
\* state, and SetSingleDigit_HEX(x, p) those of SetMultipleDigit_HEX([x],
\* p, 1)
C34_SingleIsMultipleOfOne ==
  [][/\ (lastOp'.op = "SetSingleDigit" /\ lastOp'.pos \in 0..15) =>
          Leaves(TM1629_SetMultipleDigit(DisplayType, DisplayRegister,
                                         BusStart(line, NoKeys),
                                         lastOp'.data, lastOp'.pos, 1))
     /\ (lastOp'.op = "SetSingleDigit_HEX" /\ lastOp'.pos \in 0..15) =>
          Leaves(TM1629_SetMultipleDigit_HEX(DisplayType, DisplayRegister,
                                             BusStart(line, NoKeys),
                                             lastOp'.data, lastOp'.pos, 1))]_vars

\* SetSingleDigit(0x5B, 12) on a common-anode display that held other
\* digits has left what SetMultipleDigit([0x5B], 12, 1) leaves
C34_Witness ==
  /\ DisplayType = COM_ANODE
  /\ lastOp = [op |-> "SetSingleDigit", data |-> <<91>>, pos |-> 12, cnt |-> 1]
  /\ nops = 1
  /\ prevRegister # ZeroImage
  /\ LET res == TM1629_SetMultipleDigit(
                  DisplayType, prevRegister,
                  [BusStart(IdleLine, NoKeys) EXCEPT !.ev = <<>>, !.br = <<>>],
                  <<91>>, 12, 1)
     IN  /\ trace = res.L.ev
         /\ DisplayRegister = res.R
         /\ DisplayRegister # prevRegister
         /\ ret = res.ret

\* the digit positions a write addresses
Positions(o) == o.pos..(o.pos + o.cnt - 1)

\* C35: on a common-anode display, repeating the same write leaves the
\* shadow image as it is and pushes the same 16 bytes again, and of two
\* writes to disjoint sets of digit positions within 0..15 the second leaves
\* the image that the two leave when made in the other order
C35_IdempotentCommuting ==
  [][(DisplayType = COM_ANODE /\ lastOp.op \in DisplayOps
        /\ lastOp'.op \in DisplayOps /\ nops' = nops + 1) =>
       /\ lastOp' = lastOp =>
            (DisplayRegister' = DisplayRegister /\ brackets' = brackets)
       /\ (Positions(lastOp) \cap Positions(lastOp') = {}
             /\ Positions(lastOp) \cup Positions(lastOp') \subseteq 0..15) =>
            DisplayRegister' =
              ScatterLoop(ScatterLoop(prevRegister, lastOp'.data, lastOp'.pos,
                                      lastOp'.cnt, 0),
                          lastOp.data, lastOp.pos, lastOp.cnt, 0)]_vars

\* digits 7..9 written after digit 3, which shares its bytes with digit 7,
\* and then written once more
C35_Witness ==
  /\ nops = 3
  /\ lastOp = [op |-> "SetMultipleDigit", data |-> LongData, pos |-> 7, cnt |-> 3]
  /\ prevRegister = DisplayRegister
  /\ Input[3] = 91
  /\ Column(DisplayRegister, 3) = 91
  /\ Column(DisplayRegister, 7) = 63
  /\ Sends(brackets[2], <<192>> \o DisplayRegister)

\* C36: the shadow image is changed only by a display write (SetSingleDigit,
\* SetMultipleDigit and their HEX and CHAR variants) in common-anode mode:
\* common-cathode writes, ConfigDisplay, ScanKeys, TM1629_Init and
\* TM1629_DeInit leave all 16 bytes as they are; only TM1629_Init changes
\* DisplayType, and no operation changes the platform bindings
C36_Frame ==
  [][/\ DisplayRegister' # DisplayRegister =>
          (DisplayType = COM_ANODE /\ lastOp'.op \in DisplayOps)
     /\ DisplayType' # DisplayType => lastOp'.op = "Init"
     /\ Platform' = Platform]_vars

\* TM1629_DeInit has run after a common-anode write: the image the write
\* left and the display type are still there
C36_Witness ==
  /\ lastOp.op = "DeInit"
  /\ ~inited
  /\ nops = 1
  /\ DisplayType = COM_ANODE
  /\ DisplayRegister = prevRegister
  /\ DisplayRegister # ZeroImage

\* C37: in common-anode mode an input digit whose position StartAddr + j
\* lies in 16..31 changes no shadow byte, the input digits of the same call
\* at positions 0..15 are scattered as usual, the whole 16-byte image is
\* pushed from address 0 and the call returns TM1629_OK
C37_PastLastDigit ==
  (DisplayType = COM_ANODE /\ lastOp.op \in {"SetSingleDigit", "SetMultipleDigit"}
     /\ Positions(lastOp) \subseteq 0..31
     /\ Positions(lastOp) \cap (16..31) # {}) =>
    /\ \A d \in 0..15 :
         Column(DisplayRegister, d) =
           IF d \in Positions(lastOp) THEN lastOp.data[d - lastOp.pos + 1]
           ELSE Column(prevRegister, d)
    /\ \A p \in 16..31, v \in {0, 79, 255} :
         LET s == ScatterStart(p)
         IN  ScatterDigit(prevRegister, s.i, v, s.Shift) = prevRegister
    /\ Len(brackets) = 2
    /\ Sends(brackets[1], <<64>>)
    /\ Sends(brackets[2], <<192>> \o DisplayRegister)
    /\ ret = TM1629_OK

\* digits 13..16 written on an image that was not zero: 13, 14 and 15 are
\* stored, 0x4F for position 16 is dropped
C37_Witness ==
  /\ DisplayType = COM_ANODE
  /\ lastOp = [op |-> "SetMultipleDigit", data |-> <<63, 6, 91, 79, 102, 109, 125, 7>>,
               pos |-> 13, cnt |-> 4]
  /\ prevRegister # ZeroImage
  /\ Column(DisplayRegister, 13) = 63
  /\ Column(DisplayRegister, 14) = 6
  /\ Column(DisplayRegister, 15) = 91
  /\ Column(DisplayRegister, 8) = Column(prevRegister, 8)
  /\ Column(DisplayRegister, 8) # 79
  /\ Column(DisplayRegister, 0) = Column(prevRegister, 0)
  /\ Column(DisplayRegister, 0) # 79
  /\ DisplayRegister # prevRegister

====
